---- MODULE Spec2Model ----
(***************************************************************************)
(* A model of parts of XCSF (nguyensu/xcsf):                               *)
(*   - the supervised trial loop (xcs_supervised.c),                       *)
(*   - the piece-wise constant prediction (pred_constant.c),               *)
(*   - the neural network layer list (neural.c) with its dropout and       *)
(*     max-pooling layers (neural_layer_dropout.c, neural_layer_maxpool.c).*)
(* Each part has its own specification over the shared variables; the     *)
(* variables of the other parts keep their initial values.                 *)
(***************************************************************************)
EXTENDS Integers, Sequences, FiniteSets, TLC

VARIABLES
    \* ---- supervised learning (struct XCSF and the running API function)
    xcsf,     \* explore, MAX_TRIALS, y_dim, pa, pset, mset, kset
    cl,       \* live classifiers: id -> [cond, prediction, exp, num]
    nextId,   \* next classifier address handed out by malloc
    pc,       \* position of the control flow
    frame,    \* arguments and locals of the running API function
    ret,      \* value returned by the last completed fit / score
    pred,     \* output matrix written by predict
    calls,    \* history: the calls made by the running trial, in order
    trials,   \* history: the trials completed by the running API call
    eaSaw,    \* history: the experience values the EA of this trial read
    paBuilt,  \* history: the prediction array as pa_build of this trial left it
    \* ---- constant prediction (pred_constant.c)
    pcX,      \* struct XCSF: BETA, y_dim
    pcC,      \* struct Cl: exp, prediction
    pcHist,   \* history: the updates applied to pcC (target, prediction before, after)
    \* ---- neural networks (neural.c)
    nets,     \* the struct NET objects A and B
    lst,      \* heap: the LLIST nodes, address -> [layer, prev, next]
    lay,      \* heap: the layer structs, address -> fields
    arr,      \* heap: the arrays, address -> contents
    nstat,    \* "ok" while the process runs, "exit" or "segv" once it ended
    fp,       \* the elements of the file neural_save wrote
    saved,    \* history: the network as it was when it was saved
    last,     \* history: the last operation and the state it started from
    nphase,   \* what the run has done so far: "build", "saved", "both", "done"
    \* ---- parallel kernels (the workers of a parallel for over classifiers)
    rng,      \* the state of the process-wide random number generator
    wk        \* worker -> position in the forward pass of its dropout layer

supVars == <<xcsf, cl, nextId, pc, frame, ret, pred, calls, trials, eaSaw,
            paBuilt>>

pcVars == <<pcX, pcC, pcHist>>

netVars == <<nets, lst, lay, arr, nstat, fp, saved, last, nphase>>

parVars == <<rng, wk>>

vars == <<supVars, pcVars, netVars, parVars>>

-----------------------------------------------------------------------------
(* Bounds of the model *)

MaxTrials == 2
MaxSamples == 2
MaxExp == 4

-----------------------------------------------------------------------------
(* Exact rational arithmetic standing for the double arithmetic of the code *)

Abs(n) == IF n < 0 THEN -n ELSE n

RECURSIVE GCD(_, _)
GCD(a, b) == IF b = 0 THEN a ELSE GCD(b, a % b)

\* the fraction n/d (d # 0) in lowest terms with a positive denominator
Rat(n, d) ==
    LET s == IF d < 0 THEN -1 ELSE 1
        g == GCD(Abs(n), Abs(d))
    IN  <<(s * n) \div g, (s * d) \div g>>

RInt(n) == <<n, 1>>
RAdd(a, b) == Rat(a[1] * b[2] + b[1] * a[2], a[2] * b[2])
RSub(a, b) == Rat(a[1] * b[2] - b[1] * a[2], a[2] * b[2])
RMul(a, b) == Rat(a[1] * b[1], a[2] * b[2])
RDiv(a, b) == Rat(a[1] * b[2], a[2] * b[1])
RLess(a, b) == a[1] * b[2] < b[1] * a[2]

RECURSIVE SeqSum(_)
SeqSum(s) == IF s = <<>> THEN 0 ELSE Head(s) + SeqSum(Tail(s))

-----------------------------------------------------------------------------
(* Pointers and data sets *)

\* a pointer into an array of doubles: &buf[off]
Ptr(buf, off) == [null |-> FALSE, buf |-> buf, off |-> off]
NULL == [null |-> TRUE, buf |-> <<>>, off |-> 0]

\* the dim values p[0] .. p[dim - 1]
Vec(p, dim) == [i \in 1..dim |-> p.buf[p.off + i]]

\* xcsf->x_dim and xcsf->y_dim
X_DIM == 2
Y_DIM == 2

\* the number of distinct input rows of the data sets
NConds == 3

\* struct INPUT with n rows: every cell of row r of x is (r + shift) % NConds,
\* cell k of y is base + k
Input(n, ydim, base, shift) ==
    [null |-> FALSE, n_samples |-> n, x_dim |-> X_DIM, y_dim |-> ydim,
     x |-> [k \in 1..(n * X_DIM) |-> ((k - 1) \div X_DIM + shift) % NConds],
     y |-> [k \in 1..(n * ydim) |-> base + k]]

NULL_INPUT ==
    [null |-> TRUE, n_samples |-> 0, x_dim |-> 0, y_dim |-> 0, x |-> <<>>, y |-> <<>>]

-----------------------------------------------------------------------------
(* The classifier sets, the prediction array and the EA (clset.c, pa.c,    *)
(* ea.c, loss.c and perf.c are not part of the sources at hand; they are   *)
(* modelled from the specification, with exact-match conditions, constant  *)
(* predictions and BETA = 1).                                              *)

POP_SIZE == 2
PERF_TRIALS == 1

\* total numerosity of a set of classifiers
RECURSIVE SetNum(_, _)
SetNum(h, S) ==
    IF S = {} THEN 0
    ELSE LET c == CHOOSE c \in S : TRUE IN h[c].num + SetNum(h, S \ {c})

\* sum over the set of prediction[v] * num
RECURSIVE WeightedSum(_, _, _)
WeightedSum(h, S, v) ==
    IF S = {} THEN 0
    ELSE LET c == CHOOSE c \in S : TRUE
         IN  h[c].prediction[v] * h[c].num + WeightedSum(h, S \ {c}, v)

\* loss_ptr: the total absolute error over the output dimensions
Loss(X, p, y) == SeqSum([v \in 1..X.y_dim |-> Abs(y.buf[y.off + v] - p[v])])

\* clset_init / clset_free: the set becomes empty, its members are not freed
clset_init(X, which) == [X EXCEPT ![which] = {}]

\* one numerosity unit of v is deleted; at zero v moves from the population to K
DeleteUnit(X, h, v) ==
    IF h[v].num > 1
    THEN [X |-> X, h |-> [h EXCEPT ![v].num = @ - 1]]
    ELSE [X |-> [X EXCEPT !.pset = @ \ {v}, !.mset = @ \ {v}, !.kset = @ \cup {v}],
          h |-> [h EXCEPT ![v].num = 0]]

\* pa_build with n_actions = 1: the numerosity-weighted mean prediction of M
pa_build(X, h) ==
    [X EXCEPT !.pa = [v \in 1..X.y_dim |->
        WeightedSum(h, X.mset, v) \div SetNum(h, X.mset)]]

\* clset_update: cl_update on every member of M (exp += 1, prediction moves to y)
clset_update(X, h, y) ==
    [c \in DOMAIN h |->
        IF c \in X.mset
        THEN [h[c] EXCEPT !.exp = @ + 1, !.prediction = Vec(y, X.y_dim)]
        ELSE h[c]]

\* clset_kill: every classifier referenced from K is freed
clset_kill(X, h) == [c \in (DOMAIN h) \ X.kset |-> h[c]]

\* perf_print: every PERF_TRIALS trials the windowed totals are printed and reset
perf_print(f) ==
    IF f.cnt % PERF_TRIALS = 0 /\ f.cnt > 0
    THEN [f EXCEPT !.werr = 0, !.wterr = 0]
    ELSE f

-----------------------------------------------------------------------------
(* pred_constant.c *)

\* values of xcsf->BETA, each a double the code holds exactly
BetaSet == {<<1, 1>>, <<1, 2>>, <<3, 8>>, <<1, 4>>, <<1, 8>>}

\* target vectors y and input vectors x of the samples
PCTargets == [1..Y_DIM -> {<<0, 1>>, <<3, 1>>}]
PCInputs == [1..X_DIM -> {<<0, 1>>, <<1, 1>>}]

\* what c->prediction may hold before the first update
InitialPredictions == {[v \in 1..Y_DIM |-> <<0, 1>>], [v \in 1..Y_DIM |-> <<4 + v, 1>>]}

\* no parallel kernel is running
IdlePar ==
    /\ rng = 0
    /\ wk = <<>>

\* the constant prediction is not updated at all
IdlePC ==
    /\ pcX = [BETA |-> <<1, 1>>, y_dim |-> Y_DIM]
    /\ pcC = [exp |-> 0, prediction |-> [v \in 1..Y_DIM |-> <<0, 1>>]]
    /\ pcHist = <<>>

\* as pred_constant_update, but the running mean weighs the old value by exp
pred_constant_update_exp(X, c, x, y) ==
    IF RLess(RMul(RInt(c.exp), X.BETA), RInt(1))
    THEN [var \in 1..X.y_dim |->
            RDiv(RAdd(RMul(c.prediction[var], RInt(c.exp)), y[var]), RInt(c.exp))]
    ELSE [var \in 1..X.y_dim |->
            RAdd(c.prediction[var], RMul(X.BETA, RSub(y[var], c.prediction[var])))]

\* as pred_constant_update, but without the warm-up branch
pred_constant_update_no_warmup(X, c, x, y) ==
    [var \in 1..X.y_dim |->
        RAdd(c.prediction[var], RMul(X.BETA, RSub(y[var], c.prediction[var])))]

\* pred_constant_update: the new contents of c->prediction
pred_constant_update(X, c, x, y) ==
    IF RLess(RMul(RInt(c.exp), X.BETA), RInt(1))
    THEN [var \in 1..X.y_dim |->
            RDiv(RAdd(RMul(c.prediction[var], RInt(c.exp - 1)), y[var]), RInt(c.exp))]
    ELSE [var \in 1..X.y_dim |->
            RAdd(c.prediction[var], RMul(X.BETA, RSub(y[var], c.prediction[var])))]

-----------------------------------------------------------------------------
(* Initial state *)

NoFrame ==
    [fn |-> "none", train |-> NULL_INPUT, test |-> NULL_INPUT, shuffle |-> FALSE,
     xarg |-> <<>>, n_samples |-> 0,
     cnt |-> 0, row |-> 0, x |-> NULL, y |-> NULL,
     err |-> 0, werr |-> 0, wterr |-> 0, retpc |-> "idle"]

\* the population left by earlier training on rows 0 and 1 of a training set
TrainedPop ==
    [c \in 1..2 |->
        [cond |-> [i \in 1..X_DIM |-> c - 1],
         prediction |-> [v \in 1..Y_DIM |-> (c - 1) * Y_DIM + v],
         exp |-> 1, num |-> 1]]

\* the engine before an API call: the population is empty or trained, and
\* explore is as the last call left it
InitSup ==
    /\ \E mt \in 1..MaxTrials, e \in BOOLEAN, trained \in BOOLEAN :
          /\ xcsf = [explore |-> e, MAX_TRIALS |-> mt, y_dim |-> Y_DIM,
                     pa |-> [v \in 1..Y_DIM |-> 0],
                     pset |-> IF trained THEN DOMAIN TrainedPop ELSE {},
                     mset |-> {}, kset |-> {}]
          /\ cl = IF trained THEN TrainedPop ELSE <<>>
          /\ nextId = IF trained THEN Len(TrainedPop) + 1 ELSE 1
    /\ pc = "idle"
    /\ frame = NoFrame
    /\ ret = <<0, 1>>
    /\ pred = <<>>
    /\ calls = <<>>
    /\ trials = <<>>
    /\ eaSaw = <<>>
    /\ paBuilt = <<>>

-----------------------------------------------------------------------------
(* xcs_supervised_trial, one action per statement *)

\* the running trial is entered with the arguments x and y
EnterTrial(f, x, y, back) == [f EXCEPT !.x = x, !.y = y, !.retpc = back]

trial_init_mset ==
    /\ pc = "trial_310"
    /\ xcsf' = clset_init(xcsf, "mset")
    /\ calls' = <<"clset_init(mset)">>
    /\ eaSaw' = <<>>
    /\ paBuilt' = <<>>
    /\ pc' = "trial_311"
    /\ UNCHANGED <<cl, nextId, frame, ret, pred, trials>>

trial_init_kset ==
    /\ pc = "trial_311"
    /\ xcsf' = clset_init(xcsf, "kset")
    /\ calls' = Append(calls, "clset_init(kset)")
    /\ pc' = "trial_312"
    /\ UNCHANGED <<cl, nextId, frame, ret, pred, trials, eaSaw, paBuilt>>

\* clset_match: M is the matching part of the population
trial_match_found ==
    /\ pc = "trial_312"
    /\ LET M == {c \in xcsf.pset : cl[c].cond = Vec(frame.x, X_DIM)}
       IN  /\ M # {}
           /\ xcsf' = [xcsf EXCEPT !.mset = M]
    /\ calls' = Append(calls, "clset_match")
    /\ pc' = "trial_313"
    /\ UNCHANGED <<cl, nextId, frame, ret, pred, trials, eaSaw, paBuilt>>

\* clset_match with covering: a new classifier matching x joins the population
\* and M; above POP_SIZE one numerosity unit of another classifier is deleted
trial_match_cover ==
    /\ pc = "trial_312"
    /\ {c \in xcsf.pset : cl[c].cond = Vec(frame.x, X_DIM)} = {}
    /\ LET new == [cond |-> Vec(frame.x, X_DIM),
                   prediction |-> [v \in 1..xcsf.y_dim |-> 0],
                   exp |-> 0, num |-> 1]
           h1 == [c \in (DOMAIN cl) \cup {nextId} |->
                     IF c = nextId THEN new ELSE cl[c]]
           X1 == [xcsf EXCEPT !.pset = @ \cup {nextId}, !.mset = {nextId}]
       IN  IF SetNum(h1, X1.pset) > POP_SIZE
           THEN \E v \in xcsf.pset :
                   /\ xcsf' = DeleteUnit(X1, h1, v).X
                   /\ cl' = DeleteUnit(X1, h1, v).h
           ELSE /\ xcsf' = X1
                /\ cl' = h1
    /\ nextId' = nextId + 1
    /\ calls' = Append(calls, "clset_match")
    /\ pc' = "trial_313"
    /\ UNCHANGED <<frame, ret, pred, trials, eaSaw, paBuilt>>

\* as trial_pa_build, but an exploring trial goes on to the EA without the update
trial_pa_build_no_update ==
    /\ pc = "trial_313"
    /\ xcsf' = pa_build(xcsf, cl)
    /\ paBuilt' = xcsf'.pa
    /\ calls' = Append(calls, "pa_build")
    /\ pc' = IF xcsf.explore THEN "trial_316" ELSE "trial_318"
    /\ UNCHANGED <<cl, nextId, frame, ret, pred, trials, eaSaw>>

\* as trial_pa_build, but the kill sweep is part of the explore branch only
trial_pa_build_no_kill ==
    /\ pc = "trial_313"
    /\ xcsf' = pa_build(xcsf, cl)
    /\ paBuilt' = xcsf'.pa
    /\ calls' = Append(calls, "pa_build")
    /\ pc' = IF xcsf.explore THEN "trial_315" ELSE "trial_319"
    /\ UNCHANGED <<cl, nextId, frame, ret, pred, trials, eaSaw>>

trial_pa_build ==
    /\ pc = "trial_313"
    /\ xcsf' = pa_build(xcsf, cl)
    /\ paBuilt' = xcsf'.pa
    /\ calls' = Append(calls, "pa_build")
    /\ pc' = IF xcsf.explore THEN "trial_315" ELSE "trial_318"
    /\ UNCHANGED <<cl, nextId, frame, ret, pred, trials, eaSaw>>

\* as trial_update, but the prediction array is built again after the update
trial_update_rebuild ==
    /\ pc = "trial_315"
    /\ ~frame.y.null
    /\ cl' = clset_update(xcsf, cl, frame.y)
    /\ xcsf' = pa_build(xcsf, cl')
    /\ calls' = Append(calls, "clset_update")
    /\ pc' = "trial_316"
    /\ UNCHANGED <<nextId, frame, ret, pred, trials, eaSaw, paBuilt>>

\* clset_update reads y[0 .. y_dim - 1]: with a NULL target there is no next step
trial_update ==
    /\ pc = "trial_315"
    /\ ~frame.y.null
    /\ cl' = clset_update(xcsf, cl, frame.y)
    /\ calls' = Append(calls, "clset_update")
    /\ pc' = "trial_316"
    /\ UNCHANGED <<xcsf, nextId, frame, ret, pred, trials, eaSaw, paBuilt>>

\* ea: the EA is not due
trial_ea_idle ==
    /\ pc = "trial_316"
    /\ eaSaw' = [c \in xcsf.mset |-> cl[c].exp]
    /\ calls' = Append(calls, "ea")
    /\ pc' = "trial_318"
    /\ UNCHANGED <<xcsf, cl, nextId, frame, ret, pred, trials, paBuilt>>

\* ea: an offspring identical to its parent p is merged into p (numerosity + 1)
\* and the cap is enforced by deleting one numerosity unit by roulette
trial_ea_run ==
    /\ pc = "trial_316"
    /\ eaSaw' = [c \in xcsf.mset |-> cl[c].exp]
    /\ \E p \in xcsf.mset :
          LET h1 == [cl EXCEPT ![p].num = @ + 1]
          IN  IF SetNum(h1, xcsf.pset) > POP_SIZE
              THEN \E v \in xcsf.pset :
                      /\ xcsf' = DeleteUnit(xcsf, h1, v).X
                      /\ cl' = DeleteUnit(xcsf, h1, v).h
              ELSE /\ xcsf' = xcsf
                   /\ cl' = h1
    /\ calls' = Append(calls, "ea")
    /\ pc' = "trial_318"
    /\ UNCHANGED <<nextId, frame, ret, pred, trials, paBuilt>>

trial_kill ==
    /\ pc = "trial_318"
    /\ cl' = clset_kill(xcsf, cl)
    /\ calls' = Append(calls, "clset_kill")
    /\ pc' = "trial_319"
    /\ UNCHANGED <<xcsf, nextId, frame, ret, pred, trials, eaSaw, paBuilt>>

\* clset_free(mset), then the trial returns to its caller
trial_free ==
    /\ pc = "trial_319"
    /\ xcsf' = clset_init(xcsf, "mset")
    /\ calls' = Append(calls, "clset_free(mset)")
    /\ trials' = Append(trials,
          [explore |-> xcsf.explore, x |-> Vec(frame.x, X_DIM), y |-> frame.y,
           pa |-> xcsf.pa, paBuilt |-> paBuilt, calls |-> calls', fn |-> frame.fn, row |-> frame.row,
           kset |-> xcsf.kset, live |-> DOMAIN cl])
    /\ pc' = frame.retpc
    /\ UNCHANGED <<cl, nextId, frame, ret, pred, eaSaw, paBuilt>>

xcs_supervised_trial ==
    \/ trial_init_mset
    \/ trial_init_kset
    \/ trial_match_found
    \/ trial_match_cover
    \/ trial_pa_build
    \/ trial_update
    \/ trial_ea_idle
    \/ trial_ea_run
    \/ trial_kill
    \/ trial_free

-----------------------------------------------------------------------------
(* xcs_supervised_sample: the rows it may return *)

\* as xcs_supervised_sample, but past the last row the last row is used again
xcs_supervised_sample_no_wrap(data, cnt, shuffle) ==
    IF shuffle THEN 0..(data.n_samples - 1)
    ELSE {IF cnt < data.n_samples THEN cnt ELSE data.n_samples - 1}

xcs_supervised_sample(data, cnt, shuffle) ==
    IF shuffle THEN 0..(data.n_samples - 1) ELSE {cnt % data.n_samples}

\* param_set_explore
param_set_explore(X, b) == [X EXCEPT !.explore = b]

-----------------------------------------------------------------------------
(* xcs_supervised_fit *)

\* a caller invokes fit(train, test, shuffle); test may be NULL
call_fit ==
    /\ pc = "idle"
    /\ frame.fn = "none"
    /\ \E n \in 1..MaxSamples, tn \in 0..MaxSamples, sh \in BOOLEAN :
          frame' = [NoFrame EXCEPT
                      !.fn = "fit",
                      !.train = Input(n, xcsf.y_dim, 0, 0),
                      !.test = IF tn = 0 THEN NULL_INPUT
                               ELSE Input(tn, xcsf.y_dim, 10, 1),
                      !.shuffle = sh]
    /\ trials' = <<>>
    /\ calls' = <<>>
    /\ pc' = "fit_228"
    /\ UNCHANGED <<xcsf, cl, nextId, ret, pred, eaSaw, paBuilt>>

\* as fit_train, but with the loop test cnt <= MAX_TRIALS
fit_train_one_more ==
    /\ pc = "fit_228"
    /\ frame.cnt <= xcsf.MAX_TRIALS
    /\ \E row \in xcs_supervised_sample(frame.train, frame.cnt, frame.shuffle) :
          frame' = EnterTrial([frame EXCEPT !.row = row],
                              Ptr(frame.train.x, row * frame.train.x_dim),
                              Ptr(frame.train.y, row * frame.train.y_dim),
                              "fit_235")
    /\ xcsf' = param_set_explore(xcsf, TRUE)
    /\ pc' = "trial_310"
    /\ UNCHANGED <<cl, nextId, ret, pred, calls, trials, eaSaw, paBuilt>>

\* lines 228-234: the loop test holds; the training sample is drawn and tried
fit_train ==
    /\ pc = "fit_228"
    /\ frame.cnt < xcsf.MAX_TRIALS
    /\ \E row \in xcs_supervised_sample(frame.train, frame.cnt, frame.shuffle) :
          frame' = EnterTrial([frame EXCEPT !.row = row],
                              Ptr(frame.train.x, row * frame.train.x_dim),
                              Ptr(frame.train.y, row * frame.train.y_dim),
                              "fit_235")
    /\ xcsf' = param_set_explore(xcsf, TRUE)
    /\ pc' = "trial_310"
    /\ UNCHANGED <<cl, nextId, ret, pred, calls, trials, eaSaw, paBuilt>>

\* lines 235-244: the training loss is accumulated; with test data the test
\* sample is drawn and tried
fit_train_loss ==
    /\ pc = "fit_235"
    /\ LET error == Loss(xcsf, xcsf.pa, frame.y)
           f1 == [frame EXCEPT !.werr = @ + error, !.err = @ + error]
       IN  IF ~frame.test.null
           THEN /\ \E row \in xcs_supervised_sample(frame.test, frame.cnt,
                                                   frame.shuffle) :
                      frame' = EnterTrial([f1 EXCEPT !.row = row],
                                  Ptr(frame.test.x, row * frame.test.x_dim),
                                  Ptr(frame.test.y, row * frame.test.y_dim),
                                  "fit_245")
                /\ xcsf' = param_set_explore(xcsf, FALSE)
                /\ pc' = "trial_310"
           ELSE /\ frame' = f1
                /\ xcsf' = xcsf
                /\ pc' = "fit_247"
    /\ UNCHANGED <<cl, nextId, ret, pred, calls, trials, eaSaw, paBuilt>>

\* as fit_test_loss, but the test loss also enters the total err
fit_test_loss_into_err ==
    /\ pc = "fit_245"
    /\ frame' = [frame EXCEPT !.wterr = @ + Loss(xcsf, xcsf.pa, frame.y),
                              !.err = @ + Loss(xcsf, xcsf.pa, frame.y)]
    /\ pc' = "fit_247"
    /\ UNCHANGED <<xcsf, cl, nextId, ret, pred, calls, trials, eaSaw, paBuilt>>

\* line 245
fit_test_loss ==
    /\ pc = "fit_245"
    /\ frame' = [frame EXCEPT !.wterr = @ + Loss(xcsf, xcsf.pa, frame.y)]
    /\ pc' = "fit_247"
    /\ UNCHANGED <<xcsf, cl, nextId, ret, pred, calls, trials, eaSaw, paBuilt>>

\* line 247 and the loop increment
fit_perf ==
    /\ pc = "fit_247"
    /\ frame' = [perf_print(frame) EXCEPT !.cnt = @ + 1]
    /\ pc' = "fit_228"
    /\ UNCHANGED <<xcsf, cl, nextId, ret, pred, calls, trials, eaSaw, paBuilt>>

\* line 249
fit_return ==
    /\ pc = "fit_228"
    /\ ~(frame.cnt < xcsf.MAX_TRIALS)
    /\ ret' = RDiv(RInt(frame.err), RInt(xcsf.MAX_TRIALS))
    /\ pc' = "idle"
    /\ UNCHANGED <<xcsf, cl, nextId, frame, pred, calls, trials, eaSaw, paBuilt>>

xcs_supervised_fit ==
    \/ call_fit
    \/ fit_train
    \/ fit_train_loss
    \/ fit_test_loss
    \/ fit_perf
    \/ fit_return

-----------------------------------------------------------------------------
(* xcs_supervised_predict *)

\* as call_predict, but explore is left as it was
call_predict_keep_explore ==
    /\ pc = "idle"
    /\ frame.fn = "none"
    /\ \E n \in 0..MaxSamples :
          /\ frame' = [NoFrame EXCEPT !.fn = "predict",
                                      !.xarg = Input(n, xcsf.y_dim, 0, 0).x,
                                      !.n_samples = n]
          /\ pred' = [k \in 1..(n * xcsf.y_dim) |-> -1]
    /\ trials' = <<>>
    /\ calls' = <<>>
    /\ pc' = "predict_262"
    /\ UNCHANGED <<xcsf, cl, nextId, ret, eaSaw, paBuilt>>

\* a caller invokes predict(x, pred, n_samples); every cell of the output
\* buffer holds -1 before the call
call_predict ==
    /\ pc = "idle"
    /\ frame.fn = "none"
    /\ \E n \in 0..MaxSamples :
          /\ frame' = [NoFrame EXCEPT !.fn = "predict",
                                      !.xarg = Input(n, xcsf.y_dim, 0, 0).x,
                                      !.n_samples = n]
          /\ pred' = [k \in 1..(n * xcsf.y_dim) |-> -1]
    /\ xcsf' = param_set_explore(xcsf, FALSE)
    /\ trials' = <<>>
    /\ calls' = <<>>
    /\ pc' = "predict_262"
    /\ UNCHANGED <<cl, nextId, ret, eaSaw, paBuilt>>

\* lines 262-263
predict_trial ==
    /\ pc = "predict_262"
    /\ frame.row < frame.n_samples
    /\ frame' = EnterTrial(frame, Ptr(frame.xarg, frame.row * X_DIM), NULL,
                           "predict_264")
    /\ pc' = "trial_310"
    /\ UNCHANGED <<xcsf, cl, nextId, ret, pred, calls, trials, eaSaw, paBuilt>>

\* memcpy(&dst[off], src, sizeof(double) * n)
memcpy(dst, off, src, n) ==
    [k \in DOMAIN dst |-> IF k - off \in 1..n THEN src[k - off] ELSE dst[k]]

\* as predict_copy, but the destination is &pred[row]
predict_copy_row_offset ==
    /\ pc = "predict_264"
    /\ pred' = memcpy(pred, frame.row, xcsf.pa, xcsf.y_dim)
    /\ frame' = [frame EXCEPT !.row = @ + 1]
    /\ pc' = "predict_262"
    /\ UNCHANGED <<xcsf, cl, nextId, ret, calls, trials, eaSaw, paBuilt>>

\* line 264 and the loop increment
predict_copy ==
    /\ pc = "predict_264"
    /\ pred' = memcpy(pred, frame.row * xcsf.y_dim, xcsf.pa, xcsf.y_dim)
    /\ frame' = [frame EXCEPT !.row = @ + 1]
    /\ pc' = "predict_262"
    /\ UNCHANGED <<xcsf, cl, nextId, ret, calls, trials, eaSaw, paBuilt>>

predict_return ==
    /\ pc = "predict_262"
    /\ ~(frame.row < frame.n_samples)
    /\ pc' = "idle"
    /\ UNCHANGED <<xcsf, cl, nextId, frame, ret, pred, calls, trials, eaSaw, paBuilt>>

xcs_supervised_predict ==
    \/ call_predict
    \/ predict_trial
    \/ predict_copy
    \/ predict_return

-----------------------------------------------------------------------------
(* xcs_supervised_score *)

call_score ==
    /\ pc = "idle"
    /\ frame.fn = "none"
    /\ \E n \in 1..MaxSamples :
          frame' = [NoFrame EXCEPT !.fn = "score",
                                   !.test = Input(n, xcsf.y_dim, 10, 1)]
    /\ xcsf' = param_set_explore(xcsf, FALSE)
    /\ trials' = <<>>
    /\ calls' = <<>>
    /\ pc' = "score_278"
    /\ UNCHANGED <<cl, nextId, ret, pred, eaSaw, paBuilt>>

\* lines 278-281
score_trial ==
    /\ pc = "score_278"
    /\ frame.row < frame.test.n_samples
    /\ frame' = EnterTrial(frame,
                           Ptr(frame.test.x, frame.row * frame.test.x_dim),
                           Ptr(frame.test.y, frame.row * frame.test.y_dim),
                           "score_282")
    /\ pc' = "trial_310"
    /\ UNCHANGED <<xcsf, cl, nextId, ret, pred, calls, trials, eaSaw, paBuilt>>

\* line 282 and the loop increment
score_loss ==
    /\ pc = "score_282"
    /\ frame' = [frame EXCEPT !.err = @ + Loss(xcsf, xcsf.pa, frame.y),
                              !.row = @ + 1]
    /\ pc' = "score_278"
    /\ UNCHANGED <<xcsf, cl, nextId, ret, pred, calls, trials, eaSaw, paBuilt>>

\* line 284
score_return ==
    /\ pc = "score_278"
    /\ ~(frame.row < frame.test.n_samples)
    /\ ret' = RDiv(RInt(frame.err), RInt(frame.test.n_samples))
    /\ pc' = "idle"
    /\ UNCHANGED <<xcsf, cl, nextId, frame, pred, calls, trials, eaSaw, paBuilt>>

xcs_supervised_score ==
    \/ call_score
    \/ score_trial
    \/ score_loss
    \/ score_return

-----------------------------------------------------------------------------
(* neural.c, neural_layer_dropout.c, neural_layer_maxpool.c: the heap.     *)
(* A heap H is a record: nets (the struct NET objects), lst (the LLIST     *)
(* nodes), lay (the layer structs), buf (the arrays), stat (whether the    *)
(* process still runs: "ok", "exit" after exit(EXIT_FAILURE), "segv").     *)
(* Addresses are positive integers; malloc hands out the lowest free one,  *)
(* so a freed address is used again.                                       *)

NULLPTR == 0

\* layer types and size limits (neural_layer.h); the limits are scaled down
DROPOUT == 1
MAXPOOL == 6
N_INPUTS_MAX == 2
N_OUTPUTS_MAX == 2

NetIds == {"A", "B"}

Other(n) == IF n = "A" THEN "B" ELSE "A"

MinFree(S) ==
    CHOOSE a \in 1..(Cardinality(S) + 1) :
        a \notin S /\ \A b \in 1..(a - 1) : b \in S

Put(f, k, v) == [x \in (DOMAIN f) \cup {k} |-> IF x = k THEN v ELSE f[x]]

Del(f, S) == [x \in (DOMAIN f) \ S |-> f[x]]

\* integer division of C: truncation towards zero
CDiv(a, b) ==
    LET q == Abs(a) \div Abs(b)
    IN  IF (a < 0) # (b < 0) THEN -q ELSE q

calloc(H, n, zero) ==
    LET a == MinFree(DOMAIN H.buf)
    IN  [H |-> [H EXCEPT !.buf = Put(@, a, [i \in 1..n |-> zero])], p |-> a]

free(H, ptrs) == [H EXCEPT !.buf = Del(@, ptrs)]

\* realloc(ptr, n elements): the block stays or moves; cells beyond the old
\* length hold the unspecified value fill; a negative n is a huge size_t and
\* the request fails; n = 0 frees the block or leaves an empty one
realloc(H, ptr, n, moved, fill) ==
    LET old == IF ptr \in DOMAIN H.buf THEN H.buf[ptr] ELSE <<>>
        new == [i \in 1..n |-> IF i <= Len(old) THEN old[i] ELSE fill]
        a == MinFree(DOMAIN H.buf)
    IN  IF n < 0 THEN [H |-> H, p |-> NULLPTR]
        ELSE IF n = 0 /\ moved
        THEN [H |-> free(H, {ptr}), p |-> NULLPTR]
        ELSE IF moved \/ ptr \notin DOMAIN H.buf
        THEN [H |-> [H EXCEPT !.buf = Put(Del(@, {ptr}), a, new)], p |-> a]
        ELSE [H |-> [H EXCEPT !.buf[ptr] = new], p |-> ptr]

\* layer_init (neural_layer.c): every field of a new layer is cleared
LayerZero ==
    [layer_type |-> 0, n_inputs |-> 0, n_outputs |-> 0, max_outputs |-> 0,
     probability |-> <<0, 1>>, scale |-> <<0, 1>>,
     height |-> 0, width |-> 0, channels |-> 0, pad |-> 0,
     out_w |-> 0, out_h |-> 0, out_c |-> 0, size |-> 0, stride |-> 0,
     output |-> NULLPTR, delta |-> NULLPTR, state |-> NULLPTR,
     indexes |-> NULLPTR]

\* malloc(sizeof(struct LAYER)) without layer_init: every field holds the
\* same unspecified bit pattern g
LayerGarbage(g) ==
    [layer_type |-> g, n_inputs |-> g, n_outputs |-> g, max_outputs |-> g,
     probability |-> <<g, 1>>, scale |-> <<g, 1>>,
     height |-> g, width |-> g, channels |-> g, pad |-> g,
     out_w |-> g, out_h |-> g, out_c |-> g, size |-> g, stride |-> g,
     output |-> g, delta |-> g, state |-> g, indexes |-> g]

EmptyNet ==
    [head |-> NULLPTR, tail |-> NULLPTR, n_layers |-> 0, n_inputs |-> 0,
     n_outputs |-> 0, output |-> NULLPTR]

EmptyHeap ==
    [nets |-> [n \in NetIds |-> EmptyNet], lst |-> <<>>, lay |-> <<>>,
     buf |-> <<>>, stat |-> "ok"]

-----------------------------------------------------------------------------
(* neural_layer_dropout.c *)

dropout_malloc_layer_arrays(H, l) ==
    IF H.lay[l].n_inputs < 1 \/ H.lay[l].n_inputs > N_INPUTS_MAX
    THEN [H EXCEPT !.lay[l].n_inputs = 1, !.stat = "exit"]
    ELSE LET n == H.lay[l].n_inputs
             o == calloc(H, n, <<0, 1>>)
             d == calloc(o.H, n, <<0, 1>>)
             s == calloc(d.H, n, <<0, 1>>)
         IN  [s.H EXCEPT !.lay[l].output = o.p, !.lay[l].delta = d.p,
                         !.lay[l].state = s.p]

neural_layer_dropout_init(H, n_inputs, probability) ==
    LET l == MinFree(DOMAIN H.lay)
        L == [LayerZero EXCEPT !.layer_type = DROPOUT,
                               !.n_inputs = n_inputs,
                               !.n_outputs = n_inputs,
                               !.max_outputs = n_inputs,
                               !.probability = probability,
                               !.scale = RDiv(RInt(1), RSub(RInt(1), probability))]
    IN  [H |-> dropout_malloc_layer_arrays([H EXCEPT !.lay = Put(@, l, L)], l),
         l |-> l]

neural_layer_dropout_free(H, l) ==
    free(H, {H.lay[l].output, H.lay[l].delta, H.lay[l].state})

neural_layer_dropout_copy_keep_outputs(H, src) ==
    LET l == MinFree(DOMAIN H.lay)
        S == H.lay[src]
        L == [LayerZero EXCEPT !.layer_type = S.layer_type,
                               !.n_inputs = S.n_inputs,
                               !.n_outputs = S.n_inputs,
                               !.max_outputs = S.max_outputs,
                               !.probability = S.probability,
                               !.scale = S.scale,
                               !.output = S.output,
                               !.delta = S.delta,
                               !.state = S.state]
    IN  IF S.layer_type # DROPOUT
        THEN [H |-> [H EXCEPT !.stat = "exit"], l |-> NULLPTR]
        ELSE [H |-> [H EXCEPT !.lay = Put(@, l, L)], l |-> l]

neural_layer_dropout_copy(H, src) ==
    LET l == MinFree(DOMAIN H.lay)
        S == H.lay[src]
        L == [LayerZero EXCEPT !.layer_type = S.layer_type,
                               !.n_inputs = S.n_inputs,
                               !.n_outputs = S.n_inputs,
                               !.max_outputs = S.max_outputs,
                               !.probability = S.probability,
                               !.scale = S.scale]
    IN  IF S.layer_type # DROPOUT
        THEN [H |-> [H EXCEPT !.stat = "exit"], l |-> NULLPTR]
        ELSE [H |-> dropout_malloc_layer_arrays([H EXCEPT !.lay = Put(@, l, L)], l),
              l |-> l]

\* as neural_layer_dropout_forward, but inputs are dropped in every mode
neural_layer_dropout_forward_always(H, l, input, explore, rnd) ==
    LET L == H.lay[l]
    IN  [H EXCEPT
            !.buf[L.state] =
                [i \in DOMAIN @ |-> IF i <= L.n_inputs THEN rnd[i] ELSE @[i]],
            !.buf[L.output] =
                [i \in DOMAIN @ |->
                    IF i > L.n_inputs THEN @[i]
                    ELSE IF RLess(rnd[i], L.probability) THEN <<0, 1>>
                    ELSE RMul(input[i], L.scale)]]

\* rnd[i] is the value rand_uniform(0, 1) returns for input i
neural_layer_dropout_forward(H, l, input, explore, rnd) ==
    LET L == H.lay[l]
    IN  IF ~explore
        THEN [H EXCEPT !.buf[L.output] =
                 [i \in DOMAIN @ |-> IF i <= L.n_inputs THEN input[i] ELSE @[i]]]
        ELSE [H EXCEPT
                 !.buf[L.state] =
                     [i \in DOMAIN @ |-> IF i <= L.n_inputs THEN rnd[i] ELSE @[i]],
                 !.buf[L.output] =
                     [i \in DOMAIN @ |->
                         IF i > L.n_inputs THEN @[i]
                         ELSE IF RLess(rnd[i], L.probability) THEN <<0, 1>>
                         ELSE RMul(input[i], L.scale)]]

\* delta is the delta array of the layer feeding l, NULL for the input layer
neural_layer_dropout_backward(H, l, delta) ==
    LET L == H.lay[l]
    IN  IF delta = NULLPTR THEN H
        ELSE [H EXCEPT !.buf[delta] =
                 [i \in DOMAIN @ |->
                     IF i > L.n_inputs THEN @[i]
                     ELSE IF RLess(H.buf[L.state][i], L.probability)
                     THEN <<0, 1>>
                     ELSE RAdd(@[i], RMul(H.buf[L.delta][i], L.scale))]]

neural_layer_dropout_update(H, l) == H

neural_layer_dropout_mutate(H, l) == [H |-> H, mod |-> FALSE]

neural_layer_dropout_resize(H, l, prev, moved, fill) ==
    LET n == H.lay[prev].n_outputs
        H0 == [H EXCEPT !.lay[l].n_inputs = n, !.lay[l].n_outputs = n,
                        !.lay[l].max_outputs = n]
        s == realloc(H0, H0.lay[l].state, n, moved, <<fill, 1>>)
        o == realloc(s.H, H0.lay[l].output, n, moved, <<fill, 1>>)
        d == realloc(o.H, H0.lay[l].delta, n, moved, <<fill, 1>>)
    IN  [d.H EXCEPT !.lay[l].state = s.p, !.lay[l].output = o.p,
                    !.lay[l].delta = d.p]

dropout_save_fields ==
    <<"n_inputs", "n_outputs", "max_outputs", "probability", "scale">>

dropout_load_fields_swapped ==
    <<"n_inputs", "n_outputs", "max_outputs", "scale", "probability">>

dropout_load_fields ==
    <<"n_inputs", "n_outputs", "max_outputs", "probability", "scale">>

-----------------------------------------------------------------------------
(* neural_layer_maxpool.c *)

maxpool_malloc_layer_arrays(H, l) ==
    IF H.lay[l].n_outputs < 1 \/ H.lay[l].n_outputs > N_OUTPUTS_MAX
    THEN [H EXCEPT !.lay[l].n_outputs = 1, !.stat = "exit"]
    ELSE LET n == H.lay[l].n_outputs
             i == calloc(H, n, 0)
             o == calloc(i.H, n, <<0, 1>>)
             d == calloc(o.H, n, <<0, 1>>)
         IN  [d.H EXCEPT !.lay[l].indexes = i.p, !.lay[l].output = o.p,
                         !.lay[l].delta = d.p]

neural_layer_maxpool_init(H, h, w, c, size, stride, pad) ==
    LET l == MinFree(DOMAIN H.lay)
        ow == CDiv(w + pad - size, stride) + 1
        oh == CDiv(h + pad - size, stride) + 1
        L == [LayerZero EXCEPT !.layer_type = MAXPOOL,
                               !.height = h, !.width = w, !.channels = c,
                               !.pad = pad, !.out_w = ow, !.out_h = oh,
                               !.out_c = c,
                               !.n_outputs = oh * ow * c,
                               !.max_outputs = oh * ow * c,
                               !.n_inputs = h * w * c,
                               !.size = size, !.stride = stride]
    IN  [H |-> maxpool_malloc_layer_arrays([H EXCEPT !.lay = Put(@, l, L)], l),
         l |-> l]

neural_layer_maxpool_copy(H, src) ==
    LET l == MinFree(DOMAIN H.lay)
        S == H.lay[src]
        L == [LayerZero EXCEPT !.layer_type = S.layer_type,
                               !.height = S.height, !.width = S.width,
                               !.channels = S.channels, !.pad = S.pad,
                               !.out_w = S.out_w, !.out_h = S.out_h,
                               !.out_c = S.out_c,
                               !.n_outputs = S.n_outputs,
                               !.max_outputs = S.max_outputs,
                               !.n_inputs = S.n_inputs,
                               !.size = S.size, !.stride = S.stride]
    IN  IF S.layer_type # MAXPOOL
        THEN [H |-> [H EXCEPT !.stat = "exit"], l |-> NULLPTR]
        ELSE [H |-> maxpool_malloc_layer_arrays([H EXCEPT !.lay = Put(@, l, L)], l),
              l |-> l]

neural_layer_maxpool_free(H, l) ==
    free(H, {H.lay[l].indexes, H.lay[l].output, H.lay[l].delta})

\* the loop of max_pool over the window cell t = n * size + m; max is
\* input[max_index] once max_index # -1 and -DBL_MAX before
RECURSIVE max_pool_loop(_, _, _, _, _, _, _)
max_pool_loop(L, input, i, j, k, t, max_index) ==
    IF t >= L.size * L.size THEN max_index
    ELSE LET n == t \div L.size
             m == t % L.size
             w_offset == CDiv(-L.pad, 2)
             h_offset == w_offset
             cur_h == h_offset + i * L.stride + n
             cur_w == w_offset + j * L.stride + m
             index == cur_w + L.width * (cur_h + L.height * k)
             take == /\ cur_h >= 0 /\ cur_h < L.height
                     /\ cur_w >= 0 /\ cur_w < L.width
                     /\ \/ max_index = -1
                        \/ RLess(input[max_index + 1], input[index + 1])
         IN  max_pool_loop(L, input, i, j, k, t + 1,
                           IF take THEN index ELSE max_index)

max_pool(L, input, i, j, k) == max_pool_loop(L, input, i, j, k, 0, -1)

\* fill is what the read of input[-1] returns when no cell of the window
\* lies inside the image
neural_layer_maxpool_forward(H, l, input, fill) ==
    LET L == H.lay[l]
        cells == IF L.channels > 0 /\ L.out_h > 0 /\ L.out_w > 0
                 THEN L.channels * L.out_h * L.out_w ELSE 0
        J(o) == (o - 1) % L.out_w
        I(o) == ((o - 1) \div L.out_w) % L.out_h
        K(o) == (o - 1) \div (L.out_w * L.out_h)
        mx == [o \in 1..cells |-> max_pool(L, input, I(o), J(o), K(o))]
    IN  [H EXCEPT
            !.buf[L.indexes] =
                [o \in DOMAIN @ |-> IF o <= cells THEN mx[o] ELSE @[o]],
            !.buf[L.output] =
                [o \in DOMAIN @ |->
                    IF o > cells THEN @[o]
                    ELSE IF mx[o] = -1 THEN <<fill, 1>>
                    ELSE input[mx[o] + 1]]]

\* the loop "delta[l->indexes[i]] += l->delta[i]" from i on; d is the array
RECURSIVE maxpool_backward_loop(_, _, _, _, _)
maxpool_backward_loop(d, indexes, ldelta, i, n) ==
    IF i > n THEN d
    ELSE maxpool_backward_loop(
             [d EXCEPT ![indexes[i] + 1] = RAdd(@, ldelta[i])],
             indexes, ldelta, i + 1, n)

neural_layer_maxpool_backward(H, l, delta) ==
    LET L == H.lay[l]
    IN  IF delta = NULLPTR THEN H
        ELSE [H EXCEPT !.buf[delta] =
                 maxpool_backward_loop(@, H.buf[L.indexes], H.buf[L.delta],
                                       1, L.n_outputs)]

neural_layer_maxpool_update(H, l) == H

neural_layer_maxpool_mutate(H, l) == [H |-> H, mod |-> FALSE]

neural_layer_maxpool_resize(H, l, prev, moved, fill) ==
    LET w == H.lay[prev].out_w
        h == H.lay[prev].out_h
        c == H.lay[prev].out_c
        L == H.lay[l]
        ow == CDiv(w + L.pad - L.size, L.stride) + 1
        oh == CDiv(h + L.pad - L.size, L.stride) + 1
        H0 == [H EXCEPT !.lay[l] =
                  [L EXCEPT !.height = h, !.width = w, !.channels = c,
                            !.n_inputs = h * w * c,
                            !.out_w = ow, !.out_h = oh, !.out_c = c,
                            !.n_outputs = oh * ow * c,
                            !.max_outputs = oh * ow * c]]
        n == oh * ow * c
        i == realloc(H0, L.indexes, n, moved, fill)
        o == realloc(i.H, L.output, n, moved, <<fill, 1>>)
        d == realloc(o.H, L.delta, n, moved, <<fill, 1>>)
    IN  [d.H EXCEPT !.lay[l].indexes = i.p, !.lay[l].output = o.p,
                    !.lay[l].delta = d.p]

maxpool_save_fields ==
    <<"height", "width", "channels", "pad", "out_w", "out_h", "out_c",
      "n_outputs", "max_outputs", "n_inputs", "size", "stride">>

maxpool_load_fields ==
    <<"height", "width", "channels", "pad", "out_w", "out_h", "out_c",
      "n_outputs", "max_outputs", "n_inputs", "size", "stride">>

-----------------------------------------------------------------------------
(* A layer whose mutation changes its width (neural_layer_connected.c): its *)
(* mutate adds or removes a neuron, or alters weights only, and reports     *)
(* whether it altered the layer; its resize follows the width of its input  *)

CONNECTED == 0

\* what one call of the mutate of a layer does: mod is what it reports, d is
\* the number of neurons it adds
MutateOutcomes ==
    {[mod |-> FALSE, d |-> 0], [mod |-> TRUE, d |-> 0],
     [mod |-> TRUE, d |-> 1], [mod |-> TRUE, d |-> -1]}

NoMutation == [mod |-> FALSE, d |-> 0]

neural_layer_connected_init(H, n_inputs, n_outputs, max_outputs) ==
    LET l == MinFree(DOMAIN H.lay)
        o == calloc(H, max_outputs, <<0, 1>>)
        d == calloc(o.H, max_outputs, <<0, 1>>)
    IN  [H |-> [d.H EXCEPT !.lay = Put(@, l,
                   [LayerZero EXCEPT !.layer_type = CONNECTED,
                                     !.n_inputs = n_inputs,
                                     !.n_outputs = n_outputs,
                                     !.max_outputs = max_outputs,
                                     !.output = o.p, !.delta = d.p])],
         l |-> l]

\* the number of neurons stays within 1..max_outputs
neural_layer_connected_mutate(H, l, o) ==
    LET n == H.lay[l].n_outputs + o.d
    IN  IF n >= 1 /\ n <= H.lay[l].max_outputs
        THEN [H |-> [H EXCEPT !.lay[l].n_outputs = n], mod |-> o.mod]
        ELSE [H |-> H, mod |-> o.mod]

neural_layer_connected_resize(H, l, prev) ==
    [H EXCEPT !.lay[l].n_inputs = H.lay[prev].n_outputs]

-----------------------------------------------------------------------------
(* neural_layer.c: the dispatch on the type of a layer *)

layer_copy(H, f) ==
    IF H.lay[f].layer_type = DROPOUT THEN neural_layer_dropout_copy(H, f)
    ELSE neural_layer_maxpool_copy(H, f)

layer_free(H, l) ==
    IF H.lay[l].layer_type = DROPOUT THEN neural_layer_dropout_free(H, l)
    ELSE neural_layer_maxpool_free(H, l)

\* o is what the mutation of the layer does, where the layer can mutate
layer_mutate(H, l, o) ==
    IF H.lay[l].layer_type = DROPOUT THEN neural_layer_dropout_mutate(H, l)
    ELSE IF H.lay[l].layer_type = MAXPOOL
    THEN neural_layer_maxpool_mutate(H, l)
    ELSE neural_layer_connected_mutate(H, l, o)

layer_resize(H, l, prev, moved, fill) ==
    IF H.lay[l].layer_type = DROPOUT
    THEN neural_layer_dropout_resize(H, l, prev, moved, fill)
    ELSE IF H.lay[l].layer_type = MAXPOOL
    THEN neural_layer_maxpool_resize(H, l, prev, moved, fill)
    ELSE neural_layer_connected_resize(H, l, prev)

layer_forward(H, l, input, explore, rnd, fill) ==
    IF H.lay[l].layer_type = DROPOUT
    THEN neural_layer_dropout_forward(H, l, input, explore, rnd)
    ELSE neural_layer_maxpool_forward(H, l, input, fill)

\* input is not read by the backward of either layer type
layer_backward(H, l, input, delta) ==
    IF H.lay[l].layer_type = DROPOUT
    THEN neural_layer_dropout_backward(H, l, delta)
    ELSE neural_layer_maxpool_backward(H, l, delta)

layer_update(H, l) ==
    IF H.lay[l].layer_type = DROPOUT THEN neural_layer_dropout_update(H, l)
    ELSE neural_layer_maxpool_update(H, l)

layer_output(H, l) == H.lay[l].output

\* the fwrite calls of a layer, in order
layer_save(H, l) ==
    LET L == H.lay[l]
        fields == IF L.layer_type = DROPOUT THEN dropout_save_fields
                  ELSE maxpool_save_fields
    IN  [i \in 1..Len(fields) |-> L[fields[i]]]

\* fread of one element at position pos: at the end of the file nothing is
\* read and the variable keeps its value
RECURSIVE fread_fields(_, _, _, _, _)
fread_fields(L, fields, i, file, pos) ==
    IF i > Len(fields) THEN [L |-> L, pos |-> pos]
    ELSE IF pos > Len(file)
    THEN fread_fields(L, fields, i + 1, file, pos)
    ELSE fread_fields([L EXCEPT ![fields[i]] = file[pos]], fields, i + 1,
                      file, pos + 1)

\* the layer at l holds its type; anything but the known types is fatal
layer_load(H, l, file, pos) ==
    LET L == H.lay[l]
        r == fread_fields(L, IF L.layer_type = DROPOUT THEN dropout_load_fields
                             ELSE maxpool_load_fields, 1, file, pos)
        H1 == [H EXCEPT !.lay[l] = r.L]
    IN  IF L.layer_type = DROPOUT
        THEN [H |-> dropout_malloc_layer_arrays(H1, l), pos |-> r.pos]
        ELSE IF L.layer_type = MAXPOOL
        THEN [H |-> maxpool_malloc_layer_arrays(H1, l), pos |-> r.pos]
        ELSE [H |-> [H EXCEPT !.stat = "exit"], pos |-> pos]

-----------------------------------------------------------------------------
(* neural.c *)

neural_init(H, n) == [H EXCEPT !.nets[n] = EmptyNet]

RECURSIVE Walk_one_short(_, _, _)
Walk_one_short(nodes, iter, k) ==
    IF k <= 1 \/ iter = NULLPTR THEN iter
    ELSE Walk_one_short(nodes, nodes[iter].prev, k - 1)

\* the loop "for (i = 0; i < p && iter != NULL; ++i) iter = iter->prev"
RECURSIVE Walk(_, _, _)
Walk(nodes, iter, k) ==
    IF k <= 0 \/ iter = NULLPTR THEN iter
    ELSE Walk(nodes, nodes[iter].prev, k - 1)

neural_layer_insert(H, n, l, p) ==
    LET net == H.nets[n]
        new == MinFree(DOMAIN H.lst)
    IN  IF net.head = NULLPTR \/ net.tail = NULLPTR
        THEN \* empty list
             [H EXCEPT
                 !.lst = Put(@, new, [layer |-> l, prev |-> NULLPTR,
                                      next |-> NULLPTR]),
                 !.nets[n] = [net EXCEPT !.head = new, !.tail = new,
                                         !.n_inputs = H.lay[l].n_inputs,
                                         !.n_outputs = H.lay[l].n_outputs,
                                         !.output = H.lay[l].output,
                                         !.n_layers = @ + 1]]
        ELSE LET iter == Walk(H.lst, net.tail, p)
             IN  IF iter = NULLPTR
                 THEN \* new head
                      [H EXCEPT
                          !.lst = [Put(@, new, [layer |-> l, prev |-> iter,
                                                next |-> net.head])
                                      EXCEPT ![net.head].prev = new],
                          !.nets[n] = [net EXCEPT !.head = new,
                                                  !.n_outputs = H.lay[l].n_outputs,
                                                  !.output = H.lay[l].output,
                                                  !.n_layers = @ + 1]]
                 ELSE LET lst1 == [Put(H.lst, new,
                                       [layer |-> l, prev |-> iter,
                                        next |-> H.lst[iter].next])
                                      EXCEPT ![iter].next = new]
                      IN  IF lst1[iter].next = NULLPTR
                          THEN \* new tail
                               [H EXCEPT
                                   !.lst = lst1,
                                   !.nets[n] = [net EXCEPT
                                                   !.tail = new,
                                                   !.n_inputs = H.lay[l].n_inputs,
                                                   !.n_layers = @ + 1]]
                          ELSE IF lst1[new].next = NULLPTR
                          THEN \* new->next->prev = new writes through NULL
                               [H EXCEPT !.lst = lst1, !.stat = "segv"]
                          ELSE \* middle
                               [H EXCEPT
                                   !.lst = [lst1 EXCEPT ![lst1[new].next].prev = new],
                                   !.nets[n].n_layers = @ + 1]

neural_layer_remove(H, n, p) ==
    LET net == H.nets[n]
        iter == Walk(H.lst, net.tail, p)
    IN  IF iter = NULLPTR THEN [H EXCEPT !.stat = "exit"]
        ELSE IF H.lst[iter].next = NULLPTR /\ H.lst[iter].prev = NULLPTR
        THEN [H EXCEPT !.stat = "exit"]
        ELSE
        LET it == H.lst[iter]
            \* head
            H1 == IF it.prev = NULLPTR
                  THEN LET lstA == IF it.next # NULLPTR
                                   THEN [H.lst EXCEPT ![it.next].prev = NULLPTR]
                                   ELSE H.lst
                           hl == lstA[it.next].layer
                       IN  [H EXCEPT !.lst = lstA,
                                     !.nets[n].head = it.next,
                                     !.nets[n].output = H.lay[hl].output,
                                     !.nets[n].n_outputs = H.lay[hl].n_outputs]
                  ELSE H
            \* tail
            H2 == IF it.next = NULLPTR
                  THEN [H1 EXCEPT !.nets[n].tail = it.prev,
                                  !.lst = IF it.prev # NULLPTR
                                          THEN [@ EXCEPT ![it.prev].next = NULLPTR]
                                          ELSE @]
                  ELSE H1
            \* middle
            H3 == IF it.prev # NULLPTR /\ it.next # NULLPTR
                  THEN [H2 EXCEPT !.lst = [@ EXCEPT ![it.next].prev = it.prev,
                                                    ![it.prev].next = it.next]]
                  ELSE H2
            H4 == [H3 EXCEPT !.nets[n].n_layers = @ - 1]
            H5 == layer_free(H4, it.layer)
        IN  [H5 EXCEPT !.lay = Del(@, {it.layer}), !.lst = Del(@, {iter})]

RECURSIVE neural_copy_loop(_, _, _, _)
neural_copy_loop(H, dest, iter, p) ==
    IF iter = NULLPTR \/ H.stat # "ok" THEN H
    ELSE LET c == layer_copy(H, H.lst[iter].layer)
         IN  neural_copy_loop(IF c.H.stat = "ok"
                              THEN neural_layer_insert(c.H, dest, c.l, p)
                              ELSE c.H,
                              dest, H.lst[iter].prev, p + 1)

neural_copy(H, dest, src) ==
    neural_copy_loop(neural_init(H, dest), dest, H.nets[src].tail, 0)

RECURSIVE neural_free(_, _)
neural_free(H, n) ==
    LET iter == H.nets[n].tail
    IN  IF iter = NULLPTR THEN H
        ELSE LET H1 == layer_free(H, H.lst[iter].layer)
                 H2 == [H1 EXCEPT !.lay = Del(@, {H.lst[iter].layer}),
                                  !.lst = Del(@, {iter}),
                                  !.nets[n].tail = H.lst[iter].prev,
                                  !.nets[n].n_layers = @ - 1]
             IN  neural_free(H2, n)

\* mut says what the mutation of each layer does; done lists the calls of
\* layer_mutate made so far, each with what it reported
RECURSIVE neural_mutate_loop_last(_, _, _, _, _, _, _, _, _)
neural_mutate_loop_last(H, iter, prev, do_resize, mod, mut, done, moved, fill) ==
    IF iter = NULLPTR THEN [H |-> H, mod |-> mod, done |-> done]
    ELSE LET l == H.lst[iter].layer
             H1 == IF do_resize THEN layer_resize(H, l, prev, moved, fill)
                   ELSE H
             orig_outputs == H1.lay[l].n_outputs
             m == layer_mutate(H1, l, mut[l])
         IN  neural_mutate_loop_last(
                 m.H, H.lst[iter].prev, l,
                 m.mod /\ m.H.lay[l].n_outputs # orig_outputs,
                 m.mod, mut,
                 Append(done, [l |-> l, mod |-> m.mod]), moved, fill)

RECURSIVE neural_mutate_loop(_, _, _, _, _, _, _, _, _)
neural_mutate_loop(H, iter, prev, do_resize, mod, mut, done, moved, fill) ==
    IF iter = NULLPTR THEN [H |-> H, mod |-> mod, done |-> done]
    ELSE LET l == H.lst[iter].layer
             H1 == IF do_resize THEN layer_resize(H, l, prev, moved, fill)
                   ELSE H
             orig_outputs == H1.lay[l].n_outputs
             m == layer_mutate(H1, l, mut[l])
         IN  neural_mutate_loop(m.H, H.lst[iter].prev, l,
                                m.mod /\ m.H.lay[l].n_outputs # orig_outputs,
                                mod \/ m.mod, mut,
                                Append(done, [l |-> l, mod |-> m.mod]),
                                moved, fill)

neural_mutate(H, n, mut, moved, fill) ==
    neural_mutate_loop(H, H.nets[n].tail, NULLPTR, FALSE, FALSE, mut, <<>>,
                       moved, fill)

RECURSIVE neural_resize_loop(_, _, _, _, _)
neural_resize_loop(H, iter, prev, moved, fill) ==
    IF iter = NULLPTR THEN H
    ELSE LET l == H.lst[iter].layer
             H1 == IF prev # NULLPTR /\ H.lay[l].n_inputs # H.lay[prev].n_outputs
                   THEN layer_resize(H, l, prev, moved, fill)
                   ELSE H
         IN  neural_resize_loop(H1, H.lst[iter].prev, l, moved, fill)

neural_resize(H, n, moved, fill) ==
    neural_resize_loop(H, H.nets[n].tail, NULLPTR, moved, fill)

\* input is the array the caller passes; every layer reads the output array
\* of the layer before it
RECURSIVE neural_propagate_loop(_, _, _, _, _, _)
neural_propagate_loop(H, iter, input, explore, rnd, fill) ==
    IF iter = NULLPTR THEN H
    ELSE LET l == H.lst[iter].layer
             H1 == layer_forward(H, l, input, explore, rnd, fill)
         IN  neural_propagate_loop(H1, H.lst[iter].prev,
                                   H1.buf[layer_output(H1, l)],
                                   explore, rnd, fill)

neural_propagate(H, n, input, explore, rnd, fill) ==
    neural_propagate_loop(H, H.nets[n].tail, input, explore, rnd, fill)

\* crash and fill say what a read outside the output array does:
\* the process ends, or the read returns the unspecified value fill
neural_output(H, n, i, crash, fill) ==
    LET net == H.nets[n]
        a == IF net.head \in DOMAIN H.lst
             THEN layer_output(H, H.lst[net.head].layer) ELSE NULLPTR
    IN  IF i < net.n_outputs
        THEN IF net.head = NULLPTR
             THEN \* net->head->layer reads through NULL
                  [stat |-> "segv", read |-> FALSE, val |-> <<0, 1>>]
             ELSE IF a \in DOMAIN H.buf /\ i >= 0 /\ i < Len(H.buf[a])
             THEN [stat |-> "ok", read |-> TRUE, val |-> H.buf[a][i + 1]]
             ELSE IF crash
             THEN [stat |-> "segv", read |-> TRUE, val |-> <<fill, 1>>]
             ELSE [stat |-> "ok", read |-> TRUE, val |-> <<fill, 1>>]
        ELSE [stat |-> "exit", read |-> FALSE, val |-> <<0, 1>>]

\* neural_learn: T holds the heap H and the steps taken so far; a step names
\* the operation, the layer and, for backward, the arrays it was given, where
\* net_input says that input is the array passed to neural_learn
Step(op, l, input, delta, net_input) ==
    [op |-> op, l |-> l, input |-> input, delta |-> delta,
     net_input |-> net_input]

RECURSIVE neural_learn_reset(_, _)
neural_learn_reset(T, iter) ==
    IF iter = NULLPTR THEN T
    ELSE LET l == T.H.lst[iter].layer
             L == T.H.lay[l]
         IN  neural_learn_reset(
                 [H |-> [T.H EXCEPT !.buf[L.delta] =
                            [i \in DOMAIN @ |->
                                IF i <= L.n_outputs THEN <<0, 1>> ELSE @[i]]],
                  steps |-> Append(T.steps,
                                   Step("reset", l, NULLPTR, NULLPTR, FALSE))],
                 T.H.lst[iter].prev)

neural_learn_error(T, n, truth) ==
    LET p == T.H.lst[T.H.nets[n].head].layer
        L == T.H.lay[p]
    IN  [H |-> [T.H EXCEPT !.buf[L.delta] =
                   [i \in DOMAIN @ |->
                       IF i <= L.n_outputs
                       THEN RSub(truth[i], T.H.buf[L.output][i]) ELSE @[i]]],
         steps |-> Append(T.steps, Step("error", p, NULLPTR, NULLPTR, FALSE))]

RECURSIVE neural_learn_backward_towards_output(_, _)
neural_learn_backward_towards_output(T, iter) ==
    IF iter = NULLPTR THEN T
    ELSE LET l == T.H.lst[iter].layer
             next == T.H.lst[iter].prev
         IN  IF next = NULLPTR
             THEN neural_learn_backward_towards_output(
                      [H |-> layer_backward(T.H, l, NULLPTR, NULLPTR),
                       steps |-> Append(T.steps,
                           Step("backward", l, NULLPTR, NULLPTR, TRUE))],
                      T.H.lst[iter].next)
             ELSE LET prev == T.H.lay[T.H.lst[next].layer]
                  IN  neural_learn_backward_towards_output(
                          [H |-> layer_backward(T.H, l, prev.output,
                                                prev.delta),
                           steps |-> Append(T.steps,
                               Step("backward", l, prev.output, prev.delta,
                                    FALSE))],
                          T.H.lst[iter].next)

RECURSIVE neural_learn_backward(_, _)
neural_learn_backward(T, iter) ==
    IF iter = NULLPTR THEN T
    ELSE LET l == T.H.lst[iter].layer
             next == T.H.lst[iter].next
         IN  IF next = NULLPTR
             THEN neural_learn_backward(
                      [H |-> layer_backward(T.H, l, NULLPTR, NULLPTR),
                       steps |-> Append(T.steps,
                           Step("backward", l, NULLPTR, NULLPTR, TRUE))],
                      next)
             ELSE LET prev == T.H.lay[T.H.lst[next].layer]
                  IN  neural_learn_backward(
                          [H |-> layer_backward(T.H, l, prev.output,
                                                prev.delta),
                           steps |-> Append(T.steps,
                               Step("backward", l, prev.output, prev.delta,
                                    FALSE))],
                          next)

RECURSIVE neural_learn_update(_, _)
neural_learn_update(T, iter) ==
    IF iter = NULLPTR THEN T
    ELSE LET l == T.H.lst[iter].layer
         IN  neural_learn_update(
                 [H |-> layer_update(T.H, l),
                  steps |-> Append(T.steps,
                                   Step("update", l, NULLPTR, NULLPTR, FALSE))],
                 T.H.lst[iter].prev)

neural_learn(H, n, truth) ==
    LET net == H.nets[n]
        r == neural_learn_reset([H |-> H, steps |-> <<>>], net.tail)
        e == neural_learn_error(r, n, truth)
        b == neural_learn_backward(e, net.head)
    IN  neural_learn_update(b, net.tail)

\* the layer types neural_size counts the neurons of
RECURRENT == 4

LSTM == 5

CONVOLUTIONAL == 7

\* the loop of neural_size from iter on: it runs while iter->prev != NULL
RECURSIVE neural_size_loop(_, _, _)
neural_size_loop(H, iter, size) ==
    IF H.lst[iter].prev = NULLPTR THEN size
    ELSE LET L == H.lay[H.lst[iter].layer]
         IN  neural_size_loop(
                 H, H.lst[iter].prev,
                 IF L.layer_type \in {CONNECTED, RECURRENT, LSTM, CONVOLUTIONAL}
                 THEN size + L.n_outputs ELSE size)

\* on an empty network net->tail->prev reads through NULL
neural_size(H, n) ==
    IF H.nets[n].tail = NULLPTR THEN [stat |-> "segv", size |-> 0]
    ELSE [stat |-> "ok", size |-> neural_size_loop(H, H.nets[n].tail, 0)]

\* the elements neural_save writes; the return value s is their number
RECURSIVE neural_save_loop(_, _)
neural_save_loop(H, iter) ==
    IF iter = NULLPTR THEN <<>>
    ELSE <<H.lay[H.lst[iter].layer].layer_type>>
         \o layer_save(H, H.lst[iter].layer)
         \o neural_save_loop(H, H.lst[iter].prev)

neural_save(H, n) ==
    <<H.nets[n].n_layers, H.nets[n].n_inputs, H.nets[n].n_outputs>>
    \o neural_save_loop(H, H.nets[n].tail)

\* g is the content of the memory malloc returns for a layer
RECURSIVE neural_load_loop(_, _, _, _, _, _, _)
neural_load_loop(H, n, i, nlayers, file, pos, g) ==
    IF i >= nlayers \/ H.stat # "ok" THEN [H |-> H, s |-> pos - 1]
    ELSE LET l == MinFree(DOMAIN H.lay)
             L0 == LayerGarbage(g)
             L1 == IF pos <= Len(file) THEN [L0 EXCEPT !.layer_type = file[pos]]
                   ELSE L0
             pos1 == IF pos <= Len(file) THEN pos + 1 ELSE pos
             r == layer_load([H EXCEPT !.lay = Put(@, l, L1)], l, file, pos1)
         IN  neural_load_loop(IF r.H.stat = "ok"
                              THEN neural_layer_insert(r.H, n, l, i)
                              ELSE r.H,
                              n, i + 1, nlayers, file, r.pos, g)

neural_load(H, n, file, g) ==
    LET nlayers == IF Len(file) >= 1 THEN file[1] ELSE 0
        pos == IF Len(file) >= 3 THEN 4 ELSE Len(file) + 1
    IN  neural_load_loop(neural_init(H, n), n, 0, nlayers, file, pos, g)

-----------------------------------------------------------------------------
(* The neural network specification: two networks A and B in one heap and  *)
(* one file                                                                *)

MaxLayers == 2

\* arguments the layers are created with
DropSizes == 0..(N_INPUTS_MAX + 1)
DropProbs == {<<1, 2>>}
MaxpoolParams == {<<1, 2, 1, 1, 1, 0>>, <<1, 2, 1, 2, 2, 1>>, <<2, 2, 1, 1, 1, 0>>}

\* values of rand_uniform(0, 1), of unspecified memory, of an input
RandVals == {<<0, 1>>, <<3, 4>>}
Unspecified == {0, 7}
NetInput(n) == [i \in 1..n |-> <<i, 1>>]

Heap == [nets |-> nets, lst |-> lst, lay |-> lay, buf |-> arr, stat |-> nstat]

SetHeap(H) ==
    /\ nets' = H.nets
    /\ lst' = H.lst
    /\ lay' = H.lay
    /\ arr' = H.buf
    /\ nstat' = H.stat

\* the nodes of a network from the tail (input end) to the head
RECURSIVE Chain(_, _)
Chain(l, iter) ==
    IF iter = NULLPTR THEN <<>> ELSE <<iter>> \o Chain(l, l[iter].prev)

Nodes(H, n) == Chain(H.lst, H.nets[n].tail)

\* the arrays a layer owns
Arrays(L) ==
    IF L.layer_type = DROPOUT THEN <<L.output, L.delta, L.state>>
    ELSE <<L.indexes, L.output, L.delta>>

\* everything that can be observed of a network: its struct, its nodes, its
\* layers and the contents of their arrays
View(H, n) ==
    LET ns == Nodes(H, n)
    IN  [net |-> H.nets[n],
         layers |-> [i \in 1..Len(ns) |->
             LET L == H.lay[H.lst[ns[i]].layer]
                 a == Arrays(L)
             IN  [at |-> ns[i], node |-> H.lst[ns[i]], layer |-> L,
                  arrays |-> [k \in 1..3 |->
                      IF a[k] \in DOMAIN H.buf THEN H.buf[a[k]] ELSE <<>>]]]]

\* the addresses a network is made of
Storage(H, n) ==
    LET ns == Nodes(H, n)
    IN  [lst |-> {ns[i] : i \in 1..Len(ns)},
         lay |-> {H.lst[ns[i]].layer : i \in 1..Len(ns)},
         buf |-> UNION {{Arrays(H.lay[H.lst[ns[i]].layer])[k] : k \in 1..3}
                            : i \in 1..Len(ns)} \ {NULLPTR}]

Live(H) == [lst |-> DOMAIN H.lst, lay |-> DOMAIN H.lay, buf |-> DOMAIN H.buf]

\* a forward pass reads and writes inside the arrays only
RECURSIVE CanForwardFrom(_, _, _)
CanForwardFrom(H, iter, len) ==
    IF iter = NULLPTR THEN TRUE
    ELSE LET L == H.lay[H.lst[iter].layer]
         IN  /\ L.n_inputs = len
             /\ \A k \in 1..3 : Arrays(L)[k] \in DOMAIN H.buf
             /\ L.n_outputs = Len(H.buf[L.output])
             /\ L.layer_type = DROPOUT => Len(H.buf[L.state]) = L.n_inputs
             /\ L.layer_type = MAXPOOL =>
                   /\ L.n_inputs = L.height * L.width * L.channels
                   /\ L.n_outputs = L.out_h * L.out_w * L.channels
                   /\ Len(H.buf[L.indexes]) = L.n_outputs
             /\ CanForwardFrom(H, H.lst[iter].prev, L.n_outputs)

CanForward(H, n) ==
    /\ H.nets[n].tail # NULLPTR
    /\ CanForwardFrom(H, H.nets[n].tail,
                      H.lay[H.lst[H.nets[n].tail].layer].n_inputs)

\* the layer structs of a network from the tail to the head
Layers(H, n) ==
    LET ns == Nodes(H, n) IN [i \in 1..Len(ns) |-> H.lay[H.lst[ns[i]].layer]]

NoAddresses == [lst |-> {}, lay |-> {}, buf |-> {}]

\* history of a call on network n that returned s: the other network as it
\* was before the call and, for a copy or a load, the addresses in use before
\* it; a run on a single network also keeps the argument arg, what the call
\* did (out) and the network as it was before the call
\* the run is on network A alone
OneNetwork == nphase \in {"single", "ran"}

RecordCall(op, n, s, arg, out) ==
    last' = [op |-> op, net |-> n, s |-> s,
             arg |-> IF OneNetwork THEN arg ELSE 0,
             out |-> IF OneNetwork THEN out ELSE <<>>,
             self |-> IF OneNetwork THEN View(Heap, n)
                      ELSE View(EmptyHeap, n),
             other |-> View(Heap, Other(n)),
             live |-> IF op \in {"copy", "load"} \/ OneNetwork
                      THEN Live(Heap) ELSE NoAddresses,
             built |-> last.built /\ op \in {"insert", "remove"}]

Record(op, n, s) == RecordCall(op, n, s, 0, <<>>)

NetStart(phase) ==
    /\ nets = EmptyHeap.nets
    /\ lst = <<>>
    /\ lay = <<>>
    /\ arr = <<>>
    /\ nstat = "ok"
    /\ fp = <<>>
    /\ saved = [layers |-> <<>>, s |-> 0]
    /\ last = [op |-> "none", net |-> "A", s |-> 0, arg |-> 0, out |-> <<>>,
               self |-> View(EmptyHeap, "A"),
               other |-> View(EmptyHeap, "B"), live |-> NoAddresses,
               built |-> TRUE]
    /\ nphase = phase

IdleNet == NetStart("build")

\* A run builds network A, then copies it to B or saves it and loads the
\* file into B, then makes one more call on either network ("build", "saved",
\* "both", "done"). A run on a single network builds A and then makes one
\* more call on it ("single", "done").
MayBuild(n) == nstat = "ok" /\ nphase \in {"build", "single"} /\ n = "A"

MayCall(n) ==
    /\ nstat = "ok"
    /\ nphase = "both" \/ (nphase = "single" /\ n = "A")

Advance == nphase' = IF nphase = "both" THEN "done" ELSE nphase

Finish == nphase' = "done"

\* neural_layer_insert of a new dropout layer
call_insert_dropout(n) ==
    /\ MayBuild(n) \/ MayCall(n)
    /\ nets[n].n_layers < MaxLayers
    /\ \E n_inputs \in DropSizes, probability \in DropProbs, p \in 0..MaxLayers :
          LET r == neural_layer_dropout_init(Heap, n_inputs, probability)
          IN  /\ SetHeap(IF r.H.stat = "ok"
                         THEN neural_layer_insert(r.H, n, r.l, p) ELSE r.H)
              /\ RecordCall("insert", n, 0, p,
                            IF r.H.stat = "ok" THEN <<r.l>> ELSE <<>>)
    /\ Advance
    /\ UNCHANGED <<fp, saved>>

\* neural_layer_insert of a new max-pooling layer
call_insert_maxpool(n) ==
    /\ MayBuild(n) \/ MayCall(n)
    /\ nets[n].n_layers < MaxLayers
    /\ \E a \in MaxpoolParams, p \in 0..MaxLayers :
          LET r == neural_layer_maxpool_init(Heap, a[1], a[2], a[3], a[4],
                                             a[5], a[6])
          IN  /\ SetHeap(IF r.H.stat = "ok"
                         THEN neural_layer_insert(r.H, n, r.l, p) ELSE r.H)
              /\ RecordCall("insert", n, 0, p,
                            IF r.H.stat = "ok" THEN <<r.l>> ELSE <<>>)
    /\ Advance
    /\ UNCHANGED <<fp, saved>>

call_remove(n) ==
    /\ MayBuild(n) \/ MayCall(n)
    /\ \E p \in 0..MaxLayers :
          /\ SetHeap(neural_layer_remove(Heap, n, p))
          /\ RecordCall("remove", n, 0, p, <<>>)
    /\ Advance
    /\ UNCHANGED <<fp, saved>>

call_mutate(n) ==
    /\ MayCall(n)
    /\ SetHeap(neural_mutate(Heap, n, [l \in DOMAIN lay |-> NoMutation],
                              FALSE, 0).H)
    /\ Record("mutate", n, 0)
    /\ Finish
    /\ UNCHANGED <<fp, saved>>

call_resize(n) ==
    /\ MayCall(n)
    /\ \E moved \in BOOLEAN, fill \in Unspecified :
          SetHeap(neural_resize(Heap, n, moved, fill))
    /\ Record("resize", n, 0)
    /\ Finish
    /\ UNCHANGED <<fp, saved>>

call_propagate(n) ==
    /\ MayCall(n)
    /\ CanForward(Heap, n)
    /\ \E explore \in BOOLEAN, rnd \in [1..N_INPUTS_MAX -> RandVals],
          fill \in Unspecified :
          SetHeap(neural_propagate(Heap, n,
                                   NetInput(lay[lst[nets[n].tail].layer].n_inputs),
                                   explore, rnd, fill))
    /\ Record("propagate", n, 0)
    /\ Finish
    /\ UNCHANGED <<fp, saved>>

OutputIndexes == (-1)..(N_OUTPUTS_MAX + 1)

call_output(n) ==
    /\ MayCall(n)
    /\ \E i \in OutputIndexes, crash \in BOOLEAN, fill \in Unspecified :
          LET r == neural_output(Heap, n, i, crash, fill)
          IN  /\ SetHeap([Heap EXCEPT !.stat = r.stat])
              /\ RecordCall("output", n, 0, i, r)
    /\ Finish
    /\ UNCHANGED <<fp, saved>>

\* neural_copy(B, A)
call_copy ==
    /\ nstat = "ok"
    /\ nphase = "build"
    /\ SetHeap(neural_copy(Heap, "B", "A"))
    /\ Record("copy", "B", 0)
    /\ nphase' = "both"
    /\ UNCHANGED <<fp, saved>>

\* neural_save(A) to a new file
call_save ==
    /\ nstat = "ok"
    /\ nphase = "build"
    /\ fp' = neural_save(Heap, "A")
    /\ saved' = [layers |-> Layers(Heap, "A"), s |-> Len(neural_save(Heap, "A"))]
    /\ Record("save", "A", Len(neural_save(Heap, "A")))
    /\ nphase' = "saved"
    /\ UNCHANGED <<nets, lst, lay, arr, nstat>>

\* neural_load(B) from the start of the file
call_load ==
    /\ nstat = "ok"
    /\ nphase = "saved"
    /\ \E g \in Unspecified :
          LET r == neural_load(Heap, "B", fp, g)
          IN  /\ SetHeap(r.H)
              /\ Record("load", "B", r.s)
    /\ nphase' = "both"
    /\ UNCHANGED <<fp, saved>>

-----------------------------------------------------------------------------
(* The supervised learning specification *)

\* no API call is running
IdleSup ==
    /\ xcsf = [explore |-> FALSE, MAX_TRIALS |-> 1, y_dim |-> Y_DIM,
               pa |-> [v \in 1..Y_DIM |-> 0], pset |-> {}, mset |-> {}, kset |-> {}]
    /\ cl = <<>>
    /\ nextId = 1
    /\ pc = "idle"
    /\ frame = NoFrame
    /\ ret = <<0, 1>>
    /\ pred = <<>>
    /\ calls = <<>>
    /\ trials = <<>>
    /\ eaSaw = <<>>
    /\ paBuilt = <<>>

Init == InitSup /\ IdlePC /\ IdleNet /\ IdlePar

Next ==
    /\ \/ xcs_supervised_fit
       \/ xcs_supervised_predict
       \/ xcs_supervised_score
       \/ xcs_supervised_trial
    /\ UNCHANGED <<pcVars, netVars, parVars>>

Spec == Init /\ [][Next]_vars

-----------------------------------------------------------------------------
(* The in-order fit specification: fit is called without shuffle, with     *)
(* more trials than the data sets have rows                                *)

\* the largest MAX_TRIALS of the in-order runs
FitTrials == 3

\* the engine before the call, as in InitSup, with MAX_TRIALS up to FitTrials
InitFit ==
    /\ \E mt \in 1..FitTrials, e \in BOOLEAN, trained \in BOOLEAN :
          /\ xcsf = [explore |-> e, MAX_TRIALS |-> mt, y_dim |-> Y_DIM,
                     pa |-> [v \in 1..Y_DIM |-> 0],
                     pset |-> IF trained THEN DOMAIN TrainedPop ELSE {},
                     mset |-> {}, kset |-> {}]
          /\ cl = IF trained THEN TrainedPop ELSE <<>>
          /\ nextId = IF trained THEN Len(TrainedPop) + 1 ELSE 1
    /\ pc = "idle"
    /\ frame = NoFrame
    /\ ret = <<0, 1>>
    /\ pred = <<>>
    /\ calls = <<>>
    /\ trials = <<>>
    /\ eaSaw = <<>>
    /\ paBuilt = <<>>
    /\ IdlePC /\ IdleNet /\ IdlePar

\* a caller invokes fit(train, test, false); test may be NULL
call_fit_in_order ==
    /\ pc = "idle"
    /\ frame.fn = "none"
    /\ \E n \in 1..MaxSamples, tn \in 0..MaxSamples :
          frame' = [NoFrame EXCEPT
                      !.fn = "fit",
                      !.train = Input(n, xcsf.y_dim, 0, 0),
                      !.test = IF tn = 0 THEN NULL_INPUT
                               ELSE Input(tn, xcsf.y_dim, 10, 1),
                      !.shuffle = FALSE]
    /\ trials' = <<>>
    /\ calls' = <<>>
    /\ pc' = "fit_228"
    /\ UNCHANGED <<xcsf, cl, nextId, ret, pred, eaSaw, paBuilt>>

NextFit ==
    /\ \/ call_fit_in_order
       \/ fit_train
       \/ fit_train_loss
       \/ fit_test_loss
       \/ fit_perf
       \/ fit_return
       \/ xcs_supervised_trial
    /\ UNCHANGED <<pcVars, netVars, parVars>>

SpecFit == InitFit /\ [][NextFit]_vars

-----------------------------------------------------------------------------
(* The constant prediction specification: one classifier is updated with a *)
(* sequence of samples                                                     *)

InitPC ==
    /\ \E b \in BetaSet : pcX = [BETA |-> b, y_dim |-> Y_DIM]
    /\ \E p0 \in InitialPredictions : pcC = [exp |-> 0, prediction |-> p0]
    /\ pcHist = <<>>

\* cl_update on a sample (x, y): exp += 1, then the prediction is updated
cl_update ==
    /\ pcC.exp < MaxExp
    /\ \E x \in PCInputs, y \in PCTargets :
          LET c1 == [pcC EXCEPT !.exp = @ + 1]
              c2 == [c1 EXCEPT !.prediction = pred_constant_update(pcX, c1, x, y)]
          IN  /\ pcC' = c2
              /\ pcHist' = Append(pcHist, [y |-> y, before |-> pcC.prediction,
                                           after |-> c2.prediction])
    /\ UNCHANGED pcX

NextPC == cl_update /\ UNCHANGED <<supVars, netVars, parVars>>

InitConstant == InitPC /\ IdleSup /\ IdleNet /\ IdlePar

SpecPC == InitConstant /\ [][NextPC]_vars

-----------------------------------------------------------------------------
(* The neural network specification *)

NextNet ==
    /\ \/ \E n \in NetIds :
             \/ call_insert_dropout(n)
             \/ call_insert_maxpool(n)
             \/ call_remove(n)
             \/ call_mutate(n)
             \/ call_resize(n)
             \/ call_propagate(n)
       \/ call_copy
       \/ call_save
       \/ call_load
    /\ UNCHANGED <<supVars, pcVars, parVars>>

InitNeural == IdleNet /\ IdleSup /\ IdlePC /\ IdlePar

SpecNet == InitNeural /\ [][NextNet]_vars

-----------------------------------------------------------------------------
(* The layer list specification: network A is built, then one call is made *)
(* on it                                                                   *)

NextList ==
    /\ \/ call_insert_dropout("A")
       \/ call_insert_maxpool("A")
       \/ call_remove("A")
       \/ call_mutate("A")
       \/ call_resize("A")
       \/ call_propagate("A")
       \/ call_output("A")
    /\ UNCHANGED <<supVars, pcVars, parVars>>

InitList == NetStart("single") /\ IdleSup /\ IdlePC /\ IdlePar

SpecList == InitList /\ [][NextList]_vars

-----------------------------------------------------------------------------
(* The loading specification: a file of any sizes is loaded into network B, *)
(* then the outputs of B are read                                           *)

\* the sizes a file may hold for a layer, in range and out of range
FileSizes == 0..(N_INPUTS_MAX + 1)

\* the elements of a dropout and of a max-pooling layer of size k in a file
DropoutInFile(k) == <<DROPOUT, k, k, k, <<1, 2>>, <<2, 1>>>>

MaxpoolInFile(k) == <<MAXPOOL, 1, k, 1, 0, k, 1, 1, k, k, k, 1, 1>>

LayersInFile == {DropoutInFile(k) : k \in FileSizes}
                    \cup {MaxpoolInFile(k) : k \in FileSizes}

LoadFiles ==
    {<<1, a[2], a[3]>> \o a : a \in LayersInFile}
        \cup {<<2, a[2], b[3]>> \o a \o b : a, b \in LayersInFile}

call_read_outputs ==
    /\ MayCall("B")
    /\ nets["B"].n_layers >= 1
    /\ \E i \in 0..(nets["B"].n_outputs - 1) :
          LET r == neural_output(Heap, "B", i, FALSE, 0)
          IN  /\ SetHeap([Heap EXCEPT !.stat = r.stat])
              /\ RecordCall("output", "B", 0, i, r)
    /\ Finish
    /\ UNCHANGED <<fp, saved>>

NextLoad ==
    /\ \/ call_load
       \/ call_read_outputs
    /\ UNCHANGED <<supVars, pcVars, parVars>>

InitLoad ==
    /\ nets = EmptyHeap.nets
    /\ lst = <<>>
    /\ lay = <<>>
    /\ arr = <<>>
    /\ nstat = "ok"
    /\ fp \in LoadFiles
    /\ saved = [layers |-> <<>>, s |-> 0]
    /\ last = [op |-> "none", net |-> "A", s |-> 0, arg |-> 0, out |-> <<>>,
               self |-> View(EmptyHeap, "A"),
               other |-> View(EmptyHeap, "B"), live |-> NoAddresses,
               built |-> TRUE]
    /\ nphase = "saved"
    /\ IdleSup
    /\ IdlePC
    /\ IdlePar

SpecLoad == InitLoad /\ [][NextLoad]_vars

-----------------------------------------------------------------------------
(* The mutation specification: network A is built of layers of matching    *)
(* widths, one of the kinds that mutate among them, then neural_mutate is   *)
(* called                                                                   *)

MutateLayers == 3

\* the width the next layer at the output end must take, any width when the
\* network is empty
NextWidths ==
    IF nets["A"].n_layers = 0 THEN 1..N_INPUTS_MAX ELSE {nets["A"].n_outputs}

call_append_connected ==
    /\ MayBuild("A")
    /\ nets["A"].n_layers < MutateLayers
    /\ \E n_inputs \in NextWidths, n_outputs \in 1..N_OUTPUTS_MAX :
          LET r == neural_layer_connected_init(Heap, n_inputs, n_outputs,
                                               N_OUTPUTS_MAX)
          IN  /\ SetHeap(neural_layer_insert(r.H, "A", r.l, nets["A"].n_layers))
              /\ RecordCall("insert", "A", 0, nets["A"].n_layers, <<r.l>>)
    /\ Advance
    /\ UNCHANGED <<fp, saved>>

call_append_dropout ==
    /\ MayBuild("A")
    /\ nets["A"].n_layers < MutateLayers
    /\ \E n_inputs \in NextWidths, probability \in DropProbs :
          LET r == neural_layer_dropout_init(Heap, n_inputs, probability)
          IN  /\ SetHeap(neural_layer_insert(r.H, "A", r.l, nets["A"].n_layers))
              /\ RecordCall("insert", "A", 0, nets["A"].n_layers, <<r.l>>)
    /\ Advance
    /\ UNCHANGED <<fp, saved>>

\* a max-pooling layer takes an image: it is the input layer or follows a
\* max-pooling layer whose output has its height, width and channels
call_append_maxpool ==
    /\ MayBuild("A")
    /\ nets["A"].n_layers < MutateLayers
    /\ \E a \in MaxpoolParams :
          /\ IF nets["A"].n_layers = 0 THEN TRUE
             ELSE LET L == lay[lst[nets["A"].head].layer]
                  IN  /\ L.layer_type = MAXPOOL
                      /\ a[1] = L.out_h /\ a[2] = L.out_w /\ a[3] = L.out_c
          /\ a[1] * a[2] * a[3] <= N_INPUTS_MAX
          /\ LET r == neural_layer_maxpool_init(Heap, a[1], a[2], a[3], a[4],
                                                a[5], a[6])
             IN  /\ SetHeap(neural_layer_insert(r.H, "A", r.l,
                                                nets["A"].n_layers))
                 /\ RecordCall("insert", "A", 0, nets["A"].n_layers, <<r.l>>)
    /\ Advance
    /\ UNCHANGED <<fp, saved>>

call_neural_mutate ==
    /\ MayCall("A")
    /\ nets["A"].n_layers >= 1
    /\ \E mut \in [DOMAIN lay -> MutateOutcomes], moved \in BOOLEAN,
          fill \in Unspecified :
          LET r == neural_mutate(Heap, "A", mut, moved, fill)
          IN  /\ SetHeap(r.H)
              /\ RecordCall("mutate", "A", 0, 0,
                            [mod |-> r.mod, done |-> r.done])
    /\ Finish
    /\ UNCHANGED <<fp, saved>>

call_neural_size ==
    /\ MayCall("A")
    /\ LET r == neural_size(Heap, "A")
       IN  /\ SetHeap([Heap EXCEPT !.stat = r.stat])
           /\ RecordCall("size", "A", r.size, 0, <<>>)
    /\ Finish
    /\ UNCHANGED <<fp, saved>>

NextMutate ==
    /\ \/ call_append_connected
       \/ call_append_dropout
       \/ call_append_maxpool
       \/ call_neural_mutate
       \/ call_neural_size
    /\ UNCHANGED <<supVars, pcVars, parVars>>

InitMutate == NetStart("single") /\ IdleSup /\ IdlePC /\ IdlePar

SpecMutate == InitMutate /\ [][NextMutate]_vars

-----------------------------------------------------------------------------
(* The learning specification: network A is built, a forward pass may be    *)
(* made, then neural_learn is called                                        *)

\* the values of the desired output
Truths == {1, 2}

\* neural_learn reads and writes inside the arrays only
CanLearn(H, n) ==
    /\ CanForward(H, n)
    /\ \A i \in 1..Len(Layers(H, n)) :
          LET L == Layers(H, n)[i]
          IN  /\ Len(H.buf[L.delta]) = L.n_outputs
              /\ (L.layer_type = MAXPOOL /\ i > 1) =>
                    \A o \in 1..L.n_outputs :
                        /\ H.buf[L.indexes][o] >= 0
                        /\ H.buf[L.indexes][o] < L.n_inputs

call_forward ==
    /\ MayCall("A")
    /\ CanForward(Heap, "A")
    /\ \E explore \in BOOLEAN, rnd \in [1..N_INPUTS_MAX -> RandVals],
          fill \in Unspecified :
          SetHeap(neural_propagate(Heap, "A",
                                   NetInput(lay[lst[nets["A"].tail].layer].n_inputs),
                                   explore, rnd, fill))
    /\ Record("propagate", "A", 0)
    /\ nphase' = "ran"
    /\ UNCHANGED <<fp, saved>>

call_learn ==
    /\ nstat = "ok"
    /\ OneNetwork
    /\ CanLearn(Heap, "A")
    /\ \E t \in Truths :
          LET p == lay[lst[nets["A"].head].layer]
              truth == [i \in 1..p.n_outputs |-> <<t, 1>>]
              r == neural_learn(Heap, "A", truth)
          IN  /\ SetHeap(r.H)
              /\ RecordCall("learn", "A", 0, truth, [steps |-> r.steps])
    /\ Finish
    /\ UNCHANGED <<fp, saved>>

NextLearn ==
    /\ \/ call_insert_dropout("A")
       \/ call_insert_maxpool("A")
       \/ call_forward
       \/ call_learn
    /\ UNCHANGED <<supVars, pcVars, parVars>>

InitLearn == NetStart("single") /\ IdleSup /\ IdlePC /\ IdlePar

SpecLearn == InitLearn /\ [][NextLearn]_vars

-----------------------------------------------------------------------------
(* The parallel kernel specification: two workers of a parallel for over   *)
(* the classifiers each run the forward pass of the dropout layer of their  *)
(* own classifier; rand_uniform (utils.c) steps the generator of the        *)
(* process: it loads the state, then stores the next state and returns it   *)

Workers == {1, 2}

\* the generator returns state / RngPeriod and has RngPeriod states
RngPeriod == 4

\* the layer of worker w is the w-th one allocated
LayerOf(w) == w

dropout_forward_enter(w) ==
    /\ wk[w].pc = "idle"
    /\ IF wk[w].explore
       THEN /\ wk' = [wk EXCEPT ![w].pc = "loop"]
            /\ UNCHANGED <<nets, lst, lay, arr, nstat>>
       ELSE /\ SetHeap(neural_layer_dropout_forward(
                           Heap, LayerOf(w),
                           NetInput(lay[LayerOf(w)].n_inputs), FALSE, <<>>))
            /\ wk' = [wk EXCEPT ![w].pc = "done"]
    /\ UNCHANGED <<rng, fp, saved, last, nphase>>

\* rand_uniform(0, 1), first half: the state of the generator is loaded
rand_uniform_load(w) ==
    /\ wk[w].pc = "loop"
    /\ wk[w].i < lay[LayerOf(w)].n_inputs
    /\ wk' = [wk EXCEPT ![w].pc = "rand", ![w].seen = rng]
    /\ UNCHANGED <<rng, netVars>>

\* rand_uniform(0, 1), second half: the next state is stored and returned
rand_uniform_store(w) ==
    /\ wk[w].pc = "rand"
    /\ rng' = (wk[w].seen + 1) % RngPeriod
    /\ wk' = [wk EXCEPT ![w].pc = "loop", ![w].i = @ + 1,
                        ![w].drawn = Append(@, <<(wk[w].seen + 1) % RngPeriod,
                                                 RngPeriod>>),
                        ![w].shared = @ + 1]
    /\ UNCHANGED netVars

\* the loop has drawn state[i] for every input
dropout_forward_exit(w) ==
    /\ wk[w].pc = "loop"
    /\ wk[w].i = lay[LayerOf(w)].n_inputs
    /\ SetHeap(neural_layer_dropout_forward(
                   Heap, LayerOf(w), NetInput(lay[LayerOf(w)].n_inputs), TRUE,
                   wk[w].drawn))
    /\ wk' = [wk EXCEPT ![w].pc = "done"]
    /\ UNCHANGED <<rng, fp, saved, last, nphase>>

NextPar ==
    /\ \E w \in Workers :
          \/ dropout_forward_enter(w)
          \/ rand_uniform_load(w)
          \/ rand_uniform_store(w)
          \/ dropout_forward_exit(w)
    /\ UNCHANGED <<supVars, pcVars>>

\* two dropout layers made by neural_layer_dropout_init, one per classifier
InitPar ==
    /\ \E n1, n2 \in 1..N_INPUTS_MAX, probability \in DropProbs :
          LET a == neural_layer_dropout_init(EmptyHeap, n1, probability)
              b == neural_layer_dropout_init(a.H, n2, probability)
          IN  /\ nets = b.H.nets
              /\ lst = b.H.lst
              /\ lay = b.H.lay
              /\ arr = b.H.buf
              /\ nstat = b.H.stat
    /\ fp = <<>>
    /\ saved = [layers |-> <<>>, s |-> 0]
    /\ last = [op |-> "none", net |-> "A", s |-> 0, arg |-> 0, out |-> <<>>,
               self |-> View(EmptyHeap, "A"),
               other |-> View(EmptyHeap, "B"), live |-> NoAddresses,
               built |-> TRUE]
    /\ nphase = "done"
    /\ rng \in 0..(RngPeriod - 1)
    /\ \E explore \in BOOLEAN :
          wk = [w \in Workers |->
                   [pc |-> "idle", explore |-> explore, i |-> 0, seen |-> 0,
                    drawn |-> <<>>, shared |-> 0]]
    /\ IdleSup
    /\ IdlePC

SpecPar == InitPar /\ [][NextPar]_vars

-----------------------------------------------------------------------------
(* The pooling specification: network A is one max-pooling layer of any     *)
(* geometry that neural_layer_maxpool_init accepts; its forward pass is run *)
(* on an input                                                              *)

\* h, w, c, size, stride, pad
PoolGeometries ==
    {<<h, w, c, size, stride, pad>> :
        h \in 1..2, w \in 1..2, c \in 1..2, size \in 1..2, stride \in 1..3,
        pad \in 0..2}

\* inputs of n values: rising, falling and constant
PoolInputs(n) ==
    {[i \in 1..n |-> <<i, 1>>], [i \in 1..n |-> <<n + 1 - i, 1>>],
     [i \in 1..n |-> <<1, 1>>]}

call_maxpool_forward ==
    /\ MayCall("A")
    /\ last.op = "insert"
    /\ LET l == lst[nets["A"].head].layer
       IN  \E input \in PoolInputs(lay[l].n_inputs), fill \in Unspecified :
              /\ SetHeap(neural_layer_maxpool_forward(Heap, l, input, fill))
              /\ RecordCall("forward", "A", 0, input, <<l>>)
    /\ Finish
    /\ UNCHANGED <<fp, saved>>

call_maxpool_init ==
    /\ MayBuild("A")
    /\ nets["A"].n_layers = 0
    /\ \E a \in PoolGeometries :
          LET r == neural_layer_maxpool_init(Heap, a[1], a[2], a[3], a[4],
                                             a[5], a[6])
          IN  /\ SetHeap(IF r.H.stat = "ok"
                         THEN neural_layer_insert(r.H, "A", r.l, 0) ELSE r.H)
              /\ RecordCall("insert", "A", 0, 0,
                            IF r.H.stat = "ok" THEN <<r.l>> ELSE <<>>)
    /\ Advance
    /\ UNCHANGED <<fp, saved>>

NextPool ==
    /\ \/ call_maxpool_init
       \/ call_maxpool_forward
    /\ UNCHANGED <<supVars, pcVars, parVars>>

InitPool == NetStart("single") /\ IdleSup /\ IdlePC /\ IdlePar

SpecPool == InitPool /\ [][NextPool]_vars

-----------------------------------------------------------------------------
(* The dropout specification: network A is one dropout layer; its forward   *)
(* pass is run once or twice                                                *)

DropoutProbabilities == {<<0, 1>>, <<1, 4>>, <<1, 2>>}

call_dropout_init ==
    /\ MayBuild("A")
    /\ nets["A"].n_layers = 0
    /\ \E n_inputs \in DropSizes, probability \in DropoutProbabilities :
          LET r == neural_layer_dropout_init(Heap, n_inputs, probability)
          IN  /\ SetHeap(IF r.H.stat = "ok"
                         THEN neural_layer_insert(r.H, "A", r.l, 0) ELSE r.H)
              /\ RecordCall("insert", "A", 0, 0,
                            IF r.H.stat = "ok" THEN <<r.l>> ELSE <<>>)
    /\ Advance
    /\ UNCHANGED <<fp, saved>>

call_dropout_forward ==
    /\ nstat = "ok"
    /\ OneNetwork
    /\ nets["A"].n_layers = 1
    /\ LET l == lst[nets["A"].head].layer
       IN  \E input \in PoolInputs(lay[l].n_inputs), explore \in BOOLEAN,
              rnd \in [1..lay[l].n_inputs -> RandVals] :
              /\ SetHeap(neural_layer_dropout_forward(Heap, l, input, explore,
                                                      rnd))
              /\ RecordCall("dropout_forward", "A", 0,
                            [input |-> input, explore |-> explore,
                             rnd |-> rnd], <<l>>)
    /\ nphase' = IF nphase = "single" THEN "ran" ELSE "done"
    /\ UNCHANGED <<fp, saved>>

NextDropout ==
    /\ \/ call_dropout_init
       \/ call_dropout_forward
    /\ UNCHANGED <<supVars, pcVars, parVars>>

InitDropout == NetStart("single") /\ IdleSup /\ IdlePC /\ IdlePar

SpecDropout == InitDropout /\ [][NextDropout]_vars

-----------------------------------------------------------------------------
(* Properties of the supervised trial loop *)

InTrial ==
    pc \in {"trial_310", "trial_311", "trial_312", "trial_313", "trial_315",
            "trial_316", "trial_318", "trial_319"}

IsPrefix(s, t) == Len(s) <= Len(t) /\ \A i \in 1..Len(s) : s[i] = t[i]

ExploreSteps ==
    <<"clset_init(mset)", "clset_init(kset)", "clset_match", "pa_build",
      "clset_update", "ea", "clset_kill", "clset_free(mset)">>

ExploitSteps ==
    <<"clset_init(mset)", "clset_init(kset)", "clset_match", "pa_build",
      "clset_kill", "clset_free(mset)">>

\* the calls of a trial that use M
UsesOfM == {"clset_match", "pa_build", "clset_update", "ea"}

\* C1: every trial run with explore = true makes exactly the calls clear M,
\* clear K, match, build PA, update, EA, kill sweep, clear M, in this order and
\* each once; the experience values the EA reads are those the update of the
\* same trial left (at least 1, and equal to the values held after the EA).
C1_ExploreTrialOrder ==
    /\ \A i \in 1..Len(trials) :
          trials[i].explore => trials[i].calls = ExploreSteps
    /\ (InTrial /\ pc # "trial_310" /\ xcsf.explore) => IsPrefix(calls, ExploreSteps)
    /\ (pc = "trial_318" /\ xcsf.explore) =>
          /\ DOMAIN eaSaw # {}
          /\ \A c \in DOMAIN eaSaw :
                c \in DOMAIN cl /\ eaSaw[c] >= 1 /\ eaSaw[c] = cl[c].exp

\* an EA has run on a classifier that was updated in an earlier trial too
C1_Witness ==
    /\ pc = "trial_318"
    /\ xcsf.explore
    /\ calls = SubSeq(ExploreSteps, 1, 6)
    /\ \E c \in DOMAIN eaSaw : eaSaw[c] >= 2

\* C2: every trial, exploring or not, under fit, predict and score, calls the
\* kill sweep exactly once, as its last call but one, after every use of M, and
\* then clears M; the classifiers of K are freed; outside a trial M is empty.
C2_KillSweepAlwaysRuns ==
    /\ \A i \in 1..Len(trials) :
          LET c == trials[i].calls
              n == Len(c)
          IN  /\ n >= 2
              /\ c[n] = "clset_free(mset)"
              /\ c[n - 1] = "clset_kill"
              /\ \A j \in 1..n : c[j] = "clset_kill" => j = n - 1
              /\ \A j \in 1..n : c[j] \in UsesOfM => j < n - 1
              /\ trials[i].kset \cap trials[i].live = {}
    /\ ~InTrial => xcsf.mset = {}

\* an exploit trial whose kill set was not empty has returned
C2_Witness ==
    /\ ~InTrial
    /\ \E i \in 1..Len(trials) : ~trials[i].explore /\ trials[i].kset # {}

\* C3: a trial run with explore = false calls neither the update nor the EA;
\* every trial of predict and score, and every test trial of fit, runs with
\* explore = false; the update is never reached with a NULL target.
C3_ExploitNeverLearns ==
    /\ \A i \in 1..Len(trials) :
          /\ ~trials[i].explore =>
                \A j \in 1..Len(trials[i].calls) :
                    trials[i].calls[j] \notin {"clset_update", "ea"}
          /\ trials[i].fn \in {"predict", "score"} => ~trials[i].explore
    /\ (InTrial /\ frame.fn \in {"predict", "score"}) => ~xcsf.explore
    /\ (InTrial /\ frame.fn = "fit" /\ frame.retpc = "fit_245") => ~xcsf.explore
    /\ (InTrial /\ pc # "trial_310" /\ ~xcsf.explore) => IsPrefix(calls, ExploitSteps)
    /\ pc = "trial_315" => ~frame.y.null

\* a trial of predict, with its NULL target, has passed the explore test
C3_Witness ==
    /\ pc = "trial_318"
    /\ frame.fn = "predict"
    /\ frame.y.null
    /\ calls = SubSeq(ExploitSteps, 1, 4)

\* the loss of a completed trial, from the prediction array and target it had
TrialLoss(t) == Loss(xcsf, t.pa, t.y)

TrainLossSum ==
    SeqSum([i \in 1..Len(trials) |->
               IF trials[i].explore THEN TrialLoss(trials[i]) ELSE 0])

TestLossSum ==
    SeqSum([i \in 1..Len(trials) |->
               IF trials[i].explore THEN 0 ELSE TrialLoss(trials[i])])

FitReturned == pc = "idle" /\ frame.fn = "fit"

\* C4: the value fit returns is the sum of the losses of its MAX_TRIALS training
\* trials divided by MAX_TRIALS; test losses and perf_print do not enter it.
C4_FitReturnsMeanTrainLoss ==
    FitReturned =>
        /\ ret = Rat(TrainLossSum, xcsf.MAX_TRIALS)
        /\ Cardinality({i \in 1..Len(trials) : trials[i].explore}) = xcsf.MAX_TRIALS

\* fit has returned a positive mean after test trials with a positive loss and
\* after perf_print has reset the windowed totals
C4_Witness ==
    /\ FitReturned
    /\ ~frame.test.null
    /\ xcsf.MAX_TRIALS > PERF_TRIALS
    /\ TestLossSum > 0
    /\ ret[1] > 0

\* C5: fit runs exactly MAX_TRIALS training trials, each with explore = true;
\* with test data every training trial is followed by exactly one test trial
\* with explore = false, without test data no trial runs with explore = false.
C5_FitTrialSchedule ==
    frame.fn = "fit" =>
        LET per == IF frame.test.null THEN 1 ELSE 2
        IN  /\ \A i \in 1..Len(trials) :
                  trials[i].explore = (frame.test.null \/ i % 2 = 1)
            /\ Len(trials) <= per * xcsf.MAX_TRIALS
            /\ FitReturned => Len(trials) = per * xcsf.MAX_TRIALS
            /\ pc = "fit_228" => Len(trials) = per * frame.cnt

\* fit with test data has returned after alternating train and test trials
C5_Witness ==
    /\ FitReturned
    /\ ~frame.test.null
    /\ xcsf.MAX_TRIALS >= 2
    /\ Len(trials) = 2 * xcsf.MAX_TRIALS

\* C6: predict runs one trial with explore = false per input row, in row order;
\* row r of the output holds the y_dim values of the prediction array built in
\* the trial on input row r, and the rows not yet reached are untouched.
C6_PredictRowByRow ==
    frame.fn = "predict" =>
        /\ \A i \in 1..Len(trials) :
              /\ trials[i].row = i - 1
              /\ ~trials[i].explore
              /\ trials[i].x = [k \in 1..X_DIM |-> frame.xarg[(i - 1) * X_DIM + k]]
        /\ pc \in {"predict_262", "idle"} =>
              /\ Len(trials) = frame.row
              /\ Len(pred) = frame.n_samples * xcsf.y_dim
              /\ \A r \in 0..(frame.n_samples - 1), v \in 1..xcsf.y_dim :
                    pred[r * xcsf.y_dim + v] =
                        IF r < frame.row THEN trials[r + 1].paBuilt[v] ELSE -1
        /\ pc = "idle" => frame.row = frame.n_samples

\* predict has returned two different rows of learned predictions
C6_Witness ==
    /\ pc = "idle"
    /\ frame.fn = "predict"
    /\ frame.n_samples >= 2
    /\ \A k \in 1..Len(pred) : pred[k] > 0
    /\ pred[1] # pred[1 + xcsf.y_dim]

-----------------------------------------------------------------------------
(* Properties of the constant prediction *)

\* old + rate * (y - old)
Blend(old, y, rate) == RAdd(old, RMul(rate, RSub(y, old)))

\* the first exp >= 1 with exp * BETA >= 1
SwitchExp ==
    CHOOSE e \in 1..(pcX.BETA[2] + 1) :
        /\ e * pcX.BETA[1] >= pcX.BETA[2]
        /\ \A d \in 1..(e - 1) : d * pcX.BETA[1] < pcX.BETA[2]

\* C7: the update with experience exp moves every component of the prediction
\* from its old value toward y by the rate 1/exp while exp is below the first
\* exp with exp * BETA >= 1, and by the rate BETA from that exp on; the result
\* is the same for every input x.
C7_ConstantUpdateBlend ==
    /\ \A e \in 1..Len(pcHist) :
          LET rate == IF e < SwitchExp THEN <<1, e>> ELSE pcX.BETA
          IN  \A v \in 1..pcX.y_dim :
                 pcHist[e].after[v] = Blend(pcHist[e].before[v], pcHist[e].y[v], rate)
    /\ Len(pcHist) = pcC.exp
    /\ pcC.exp >= 1 =>
          \A y \in PCTargets, x1 \in PCInputs, x2 \in PCInputs :
              pred_constant_update(pcX, pcC, x1, y) = pred_constant_update(pcX, pcC, x2, y)

\* updates on both sides of the switch have been applied, with BETA not 1/exp
C7_Witness ==
    /\ pcX.BETA = <<3, 8>>
    /\ pcC.exp = MaxExp
    /\ pcHist[1].before[1] # <<0, 1>>
    /\ \E v \in 1..pcX.y_dim : pcHist[3].after[v] # pcHist[3].before[v]

RECURSIVE TargetSum(_, _)
TargetSum(h, v) ==
    IF h = <<>> THEN <<0, 1>> ELSE RAdd(Head(h).y[v], TargetSum(Tail(h), v))

\* C8: after k updates with exp = 1 .. k and k * BETA < 1, every component of
\* the prediction is the arithmetic mean of the k targets, whatever the
\* prediction held at the start; the first update sets it to y.
C8_WarmupRunningMean ==
    (pcC.exp >= 1 /\ pcC.exp * pcX.BETA[1] < pcX.BETA[2]) =>
        /\ \A v \in 1..pcX.y_dim :
              pcC.prediction[v] = RDiv(TargetSum(pcHist, v), RInt(pcC.exp))
        /\ pcHist[1].after = pcHist[1].y

\* three different targets have been averaged over a non-zero start value
C8_Witness ==
    /\ pcC.exp = 3
    /\ pcC.exp * pcX.BETA[1] < pcX.BETA[2]
    /\ pcHist[1].before[1] # <<0, 1>>
    /\ pcHist[1].y # pcHist[2].y
    /\ pcC.prediction[1] = <<1, 1>>
    /\ pcC.prediction # pcHist[3].y

-----------------------------------------------------------------------------
(* Properties of the neural network list *)

\* the run copied A to B (no file was written)
Copied == nphase \in {"both", "done"} /\ fp = <<>>

\* the fields that hold the type and the sizes of a layer
SizeFields(L) ==
    IF L.layer_type = DROPOUT
    THEN {"layer_type", "n_inputs", "n_outputs", "max_outputs", "probability",
          "scale"}
    ELSE {"layer_type", "n_inputs", "n_outputs", "max_outputs", "height",
          "width", "channels", "pad", "out_w", "out_h", "out_c", "size",
          "stride"}

SameSizes(L, M) ==
    /\ L.layer_type = M.layer_type
    /\ \A f \in SizeFields(L) : L[f] = M[f]

ArrayLengths(H, L) ==
    [k \in 1..3 |-> IF Arrays(L)[k] \in DOMAIN H.buf
                    THEN Len(H.buf[Arrays(L)[k]]) ELSE -1]

Disjoint(S, T) ==
    /\ S.lst \cap T.lst = {}
    /\ S.lay \cap T.lay = {}
    /\ S.buf \cap T.buf = {}

Within(S, T) ==
    /\ S.lst \subseteq T.lst
    /\ S.lay \subseteq T.lay
    /\ S.buf \subseteq T.buf

LayerTypes(H, n) ==
    {Layers(H, n)[i].layer_type : i \in 1..Len(Layers(H, n))}

\* C9: when neural_copy returns, the destination has as many layers as the
\* source, of the same types and sizes in the same order; its nodes, layers
\* and arrays are newly allocated and the source is as it was; the two
\* networks share no storage, and a later insert, remove, mutate, resize or
\* forward pass on one of them leaves the other as it was.
C9_CopyIsIndependent ==
    (Copied /\ nstat = "ok") =>
        LET A == Layers(Heap, "A")
            B == Layers(Heap, "B")
        IN  /\ last.op = "copy" =>
                  /\ nets["B"].n_layers = nets["A"].n_layers
                  /\ Len(B) = Len(A)
                  /\ \A i \in 1..Len(A) :
                        /\ SameSizes(A[i], B[i])
                        /\ ArrayLengths(Heap, A[i]) = ArrayLengths(Heap, B[i])
                  /\ Disjoint(Storage(Heap, "B"), last.live)
                  /\ Within(Storage(Heap, "B"), Live(Heap))
                  /\ View(Heap, "A") = last.other
            /\ Disjoint(Storage(Heap, "A"), Storage(Heap, "B"))
            /\ nphase = "done" => View(Heap, Other(last.net)) = last.other

\* a forward pass through a copy of a dropout and a max-pooling layer has
\* changed the arrays of the copy
C9_Witness ==
    /\ Copied
    /\ nstat = "ok"
    /\ nphase = "done"
    /\ last.op = "propagate"
    /\ last.net = "B"
    /\ nets["B"].n_layers = 2
    /\ LayerTypes(Heap, "B") = {DROPOUT, MAXPOOL}
    /\ \E i \in 1..2 : View(Heap, "A").layers[i].arrays
                           # View(Heap, "B").layers[i].arrays

\* the fields neural_layer_dropout_save and neural_layer_maxpool_save write
SavedFields(L) ==
    IF L.layer_type = DROPOUT
    THEN {"n_inputs", "n_outputs", "max_outputs", "probability", "scale"}
    ELSE {"height", "width", "channels", "pad", "out_w", "out_h", "out_c",
          "n_outputs", "max_outputs", "n_inputs", "size", "stride"}

\* C10: when neural_load returns from reading what neural_save wrote, the
\* loaded network has the number of layers of the saved one, the same layer
\* types in the same order and the same value in every saved field of its
\* dropout and max-pooling layers, and the count of elements read equals the
\* count of elements written.
C10_SaveLoadRoundTrip ==
    (last.op = "load" /\ nstat = "ok") =>
        LET B == Layers(Heap, "B")
        IN  /\ last.s = saved.s
            /\ saved.s = Len(fp)
            /\ nets["B"].n_layers = Len(saved.layers)
            /\ Len(B) = Len(saved.layers)
            /\ \A i \in 1..Len(B) :
                  /\ B[i].layer_type = saved.layers[i].layer_type
                  /\ \A f \in SavedFields(B[i]) : B[i][f] = saved.layers[i][f]

\* a network of a dropout and a max-pooling layer has been saved and loaded
C10_Witness ==
    /\ last.op = "load"
    /\ nstat = "ok"
    /\ Len(saved.layers) = 2
    /\ LayerTypes(Heap, "B") = {DROPOUT, MAXPOOL}
    /\ saved.s > 3

-----------------------------------------------------------------------------
(* Properties of the layer list *)

\* C11: on a network with at least one layer, neural_output(net, i) returns the i-th value of the output layer only
\* when 0 <= i < net->n_outputs; for every other index the process ends with
\* the fatal error and the output array is not read.
C11_OutputChecksIndex ==
    (last.op = "output" /\ nets[last.net].n_layers >= 1) =>
        IF 0 <= last.arg /\ last.arg < nets[last.net].n_outputs
        THEN nstat = "ok" /\ last.out.read
        ELSE nstat = "exit" /\ ~last.out.read

\* C12: neural_layer_remove ends the process with a diagnostic, with the
\* list unchanged and nothing freed, when the network has a single layer or
\* when p names no layer (p >= n_layers); every other remove completes and
\* leaves a network of one layer less, which is at least one layer.
C12_RemoveKeepsOneLayer ==
    last.op = "remove" =>
        LET k == Len(last.self.layers)
        IN  IF k <= 1 \/ last.arg >= k
            THEN /\ nstat = "exit"
                 /\ View(Heap, last.net) = last.self
                 /\ Live(Heap) = last.live
            ELSE /\ nstat = "ok"
                 /\ nets[last.net].n_layers = k - 1
                 /\ Len(Nodes(Heap, last.net)) = k - 1
                 /\ nets[last.net].n_layers >= 1

\* the removal of the only layer of a network has been rejected
C12_Witness ==
    /\ last.op = "remove"
    /\ Len(last.self.layers) = 1
    /\ last.arg = 0
    /\ nstat = "exit"

\* the addresses of the layers of a view, from the tail to the head
LayerOrder(v) == [i \in 1..Len(v.layers) |-> v.layers[i].node.layer]

\* C16: neural_layer_insert(net, l, p) completes and puts l at position p
\* counted from the input end, the layers already present keeping their
\* order, and n_layers grows by one: with p = 0 the layer l is the new tail
\* and net->n_inputs is its n_inputs; with p >= n_layers it is the new head
\* and net->n_outputs and net->output are its; on an empty network it is
\* both head and tail.
C16_InsertAtPosition ==
    (last.op = "insert" /\ last.out # <<>>) =>
        LET before == LayerOrder(last.self)
            k == Len(before)
            q == IF last.arg < k THEN last.arg ELSE k
            l == last.out[1]
            net == nets[last.net]
        IN  /\ nstat = "ok"
            /\ LayerOrder(View(Heap, last.net))
                   = SubSeq(before, 1, q) \o <<l>> \o SubSeq(before, q + 1, k)
            /\ net.n_layers = k + 1
            /\ q = 0 => /\ lst[net.tail].layer = l
                        /\ net.n_inputs = lay[l].n_inputs
            /\ q = k => /\ lst[net.head].layer = l
                        /\ net.n_outputs = lay[l].n_outputs
                        /\ net.output = lay[l].output

\* the nodes of a network from the head to the tail, following next
RECURSIVE ChainNext(_, _, _)
ChainNext(l, iter, fuel) ==
    IF iter = NULLPTR \/ fuel = 0 THEN <<>>
    ELSE <<iter>> \o ChainNext(l, l[iter].next, fuel - 1)

Reverse(q) == [i \in 1..Len(q) |-> q[Len(q) + 1 - i]]

\* the summary fields of a network describe its list
SummaryDescribesList(H, n) ==
    LET net == H.nets[n]
        ns == Nodes(H, n)
        k == Len(ns)
    IN  /\ net.n_layers = k
        /\ ChainNext(H.lst, net.head, k + 1) = Reverse(ns)
        /\ k = 0 => net.head = NULLPTR /\ net.tail = NULLPTR
        /\ k > 0 =>
              /\ net.tail = ns[1]
              /\ net.head = ns[k]
              /\ H.lst[net.head].prev = NULLPTR
              /\ H.lst[net.tail].next = NULLPTR
              /\ net.n_inputs = H.lay[H.lst[net.tail].layer].n_inputs
              /\ net.n_outputs = H.lay[H.lst[net.head].layer].n_outputs
              /\ net.output = H.lay[H.lst[net.head].layer].output

\* C17: after any sequence of completed neural_layer_insert and
\* neural_layer_remove calls on a network made by neural_init, n_layers is
\* the length of the chain, n_inputs is the tail layer's n_inputs, n_outputs
\* and output are the head layer's, the head has no prev, the tail has no
\* next, and the walk along next is the reverse of the walk along prev.
C17_SummaryFieldsDescribeList ==
    (last.built /\ nstat = "ok") => SummaryDescribesList(Heap, "A")

\* every layer but the input layer takes as many inputs as the layer feeding
\* it gives outputs
WidthsMatch(v) ==
    \A i \in 2..Len(v.layers) :
        v.layers[i].layer.n_inputs = v.layers[i - 1].layer.n_outputs

\* C18: after neural_resize returns, every layer other than the input layer
\* has n_inputs equal to the n_outputs of the layer feeding it, whatever the
\* network was before; a network whose layers all matched is left as it was.
C18_ResizeMakesWidthsMatch ==
    (last.op = "resize" /\ nstat = "ok") =>
        /\ WidthsMatch(View(Heap, last.net))
        /\ WidthsMatch(last.self) => View(Heap, last.net) = last.self

\* the file holds, among its first k layers from position pos, a dropout
\* layer with n_inputs or a max-pooling layer with n_outputs out of range
RECURSIVE SizeOutOfRange(_, _, _)
SizeOutOfRange(file, pos, k) ==
    IF k = 0 \/ pos > Len(file) THEN FALSE
    ELSE IF file[pos] = DROPOUT
    THEN \/ file[pos + 1] < 1
         \/ file[pos + 1] > N_INPUTS_MAX
         \/ SizeOutOfRange(file, pos + 1 + Len(dropout_load_fields), k - 1)
    ELSE \/ file[pos + 8] < 1
         \/ file[pos + 8] > N_OUTPUTS_MAX
         \/ SizeOutOfRange(file, pos + 1 + Len(maxpool_load_fields), k - 1)

\* C13: when neural_load reads a dropout layer whose n_inputs is outside
\* [1, N_INPUTS_MAX] or a max-pooling layer whose n_outputs is outside
\* [1, N_OUTPUTS_MAX], the process is not terminated: neural_load returns to
\* its caller, and the network it leaves holds no layer of such a size.
C13_LoadSurvivesBadSize ==
    (last.op = "load" /\ SizeOutOfRange(fp, 4, fp[1])) =>
        /\ nstat = "ok"
        /\ \A i \in 1..Len(Layers(Heap, "B")) :
              /\ Layers(Heap, "B")[i].n_inputs >= 1
              /\ Layers(Heap, "B")[i].n_outputs >= 1

\* C14: if before neural_mutate every layer's n_inputs equals the n_outputs
\* of the layer feeding it, the same holds after neural_mutate returns,
\* whichever layers changed their output width during the pass, by their own
\* mutation or by being resized.
C14_MutateKeepsWidthsMatching ==
    (last.op = "mutate" /\ nstat = "ok" /\ WidthsMatch(last.self)) =>
        WidthsMatch(View(Heap, last.net))

\* the layers of a view that can mutate
CannotMutate(v) ==
    \A i \in 1..Len(v.layers) :
        v.layers[i].layer.layer_type \in {DROPOUT, MAXPOOL}

\* C19: neural_mutate calls the mutate of every layer exactly once, from the
\* input layer to the output layer, and returns true if and only if one of
\* the calls reported an alteration; the mutate of a dropout and of a
\* max-pooling layer reports none, and a network of such layers only is
\* left unchanged with neural_mutate returning false.
C19_MutateVisitsEveryLayerOnce ==
    last.op = "mutate" =>
        LET r == last.out
        IN  /\ [i \in 1..Len(r.done) |-> r.done[i].l] = LayerOrder(last.self)
            /\ r.mod <=> \E i \in 1..Len(r.done) : r.done[i].mod
            /\ \A i \in 1..Len(r.done) :
                  last.self.layers[i].layer.layer_type \in {DROPOUT, MAXPOOL}
                      => ~r.done[i].mod
            /\ CannotMutate(last.self) =>
                  ~r.mod /\ View(Heap, last.net) = last.self

\* a network of three layers where only the first reports an alteration
C19_Witness ==
    /\ last.op = "mutate"
    /\ Len(last.out.done) = 3
    /\ last.out.done[1].mod
    /\ ~last.out.done[2].mod
    /\ ~last.out.done[3].mod
    /\ last.out.mod

\* the steps i..j of a trace are one step of operation op on each layer
EachLayerOnce(t, i, j, op, order) ==
    /\ \A x \in i..j : t[x].op = op
    /\ \A y \in 1..Len(order) :
          Cardinality({x \in i..j : t[x].l = order[y]}) = 1

\* C20: one neural_learn call on a network of k >= 1 layers takes 3k + 1
\* steps in this order: the delta of every layer is reset; the delta of the
\* output layer is set to truth - output; backward is called on every layer
\* once from the output layer to the input layer, each layer given the output
\* and delta arrays of the layer feeding it and the input layer given the
\* network input and no delta array; update is called on every layer once.
\* The delta of the output layer is truth - output when the call returns.
C20_LearnRunsThreePhases ==
    last.op = "learn" =>
        LET t == last.out.steps
            v == last.self
            order == LayerOrder(v)
            k == Len(order)
            head == v.layers[k]
        IN  /\ k >= 1
            /\ Len(t) = 3 * k + 1
            /\ EachLayerOnce(t, 1, k, "reset", order)
            /\ t[k + 1].op = "error" /\ t[k + 1].l = order[k]
            /\ \A i \in 1..k :
                  LET b == t[k + 1 + i]
                      at == k + 1 - i
                  IN  /\ b.op = "backward"
                      /\ b.l = order[at]
                      /\ IF at = 1
                         THEN b.net_input /\ b.delta = NULLPTR
                         ELSE /\ ~b.net_input
                              /\ b.input = v.layers[at - 1].layer.output
                              /\ b.delta = v.layers[at - 1].layer.delta
            /\ EachLayerOnce(t, 2 * k + 2, 3 * k + 1, "update", order)
            /\ \A i \in 1..head.layer.n_outputs :
                  arr[head.layer.delta][i]
                      = RSub(last.arg[i],
                             head.arrays[IF head.layer.layer_type = DROPOUT
                                         THEN 1 ELSE 2][i])

\* neural_learn on a network of two layers after a forward pass in explore
\* mode that kept an input
C20_Witness ==
    /\ last.op = "learn"
    /\ Len(last.out.steps) = 7
    /\ nphase = "done"
    /\ \E i \in 1..Len(last.self.layers) :
          /\ last.self.layers[i].layer.layer_type = DROPOUT
          /\ last.self.layers[i].arrays[3][1] = <<3, 4>>

-----------------------------------------------------------------------------
(* Properties of the parallel kernels *)

\* C15: in a parallel kernel the forward pass of a dropout layer in explore
\* mode takes no number from the generator of the process, and no two
\* workers are inside that generator at the same time.
C15_DropoutDrawsFromOwnStream ==
    /\ \A w \in DOMAIN wk : wk[w].pc # "rand" /\ wk[w].shared = 0
    /\ \A v, w \in DOMAIN wk :
          (wk[v].pc = "rand" /\ wk[w].pc = "rand") => v = w

-----------------------------------------------------------------------------
(* Properties of the size of a network *)

\* the sum of n_outputs over the first k layers of a view that hold neurons
RECURSIVE Neurons(_, _)
Neurons(v, k) ==
    IF k = 0 THEN 0
    ELSE Neurons(v, k - 1)
         + IF v.layers[k].layer.layer_type
                  \in {CONNECTED, RECURRENT, LSTM, CONVOLUTIONAL}
           THEN v.layers[k].layer.n_outputs ELSE 0

\* C21: on a network with at least one layer neural_size returns the sum of
\* n_outputs over all of its connected, recurrent, LSTM and convolutional
\* layers; the other layers add nothing.
C21_SizeCountsAllNeurons ==
    (last.op = "size" /\ Len(last.self.layers) >= 1) =>
        /\ nstat = "ok"
        /\ last.s = Neurons(last.self, Len(last.self.layers))

-----------------------------------------------------------------------------
(* Properties of the layers *)

\* the input indexes of channel k that lie in the image and in the pooling
\* window of the output cell at row i and column j
PoolWindow(L, i, j, k) ==
    {col + L.width * (row + L.height * k) :
        row \in {r \in 0..(L.height - 1) :
                    /\ r >= CDiv(-L.pad, 2) + i * L.stride
                    /\ r < CDiv(-L.pad, 2) + i * L.stride + L.size},
        col \in {q \in 0..(L.width - 1) :
                    /\ q >= CDiv(-L.pad, 2) + j * L.stride
                    /\ q < CDiv(-L.pad, 2) + j * L.stride + L.size}}

\* C22: after the forward pass of a max-pooling layer that init accepted,
\* for every output cell (channel k, row i, column j) the index recorded in
\* indexes lies in [0, n_inputs), in channel k and in the pooling window of
\* the cell, and is never -1; the output of the cell is the largest input of
\* the window inside the image.
C22_PoolIndexInWindow ==
    last.op = "forward" =>
        LET L == lay[last.out[1]]
            input == last.arg
        IN  \A k \in 0..(L.channels - 1), i \in 0..(L.out_h - 1),
               j \in 0..(L.out_w - 1) :
               LET o == j + L.out_w * (i + L.out_h * k) + 1
                   idx == arr[L.indexes][o]
               IN  /\ idx # -1
                   /\ idx >= 0 /\ idx < L.n_inputs
                   /\ idx \in PoolWindow(L, i, j, k)
                   /\ arr[L.output][o] = input[idx + 1]
                   /\ \A x \in PoolWindow(L, i, j, k) :
                         ~RLess(arr[L.output][o], input[x + 1])

\* the sizes of a layer are those its arrays may be allocated for
SizeInRange(L) ==
    IF L.layer_type = DROPOUT
    THEN /\ L.n_inputs >= 1 /\ L.n_inputs <= N_INPUTS_MAX
         /\ L.n_inputs = L.n_outputs /\ L.n_outputs = L.max_outputs
    ELSE /\ L.n_outputs >= 1 /\ L.n_outputs <= N_OUTPUTS_MAX
         /\ L.n_outputs = L.out_h * L.out_w * L.out_c
         /\ L.n_inputs = L.height * L.width * L.channels

\* C23: while the process runs, after any sequence of init, copy, load and
\* resize, every live dropout layer has 1 <= n_inputs <= N_INPUTS_MAX and
\* n_inputs = n_outputs = max_outputs, and every live max-pooling layer has
\* 1 <= n_outputs <= N_OUTPUTS_MAX, n_outputs = out_h * out_w * out_c and
\* n_inputs = height * width * channels.
C23_LayerSizesInRange ==
    nstat = "ok" => \A l \in DOMAIN lay : SizeInRange(lay[l])

\* C24: the forward pass of a dropout layer leaves every field of the layer
\* and its delta array as they were, and scale is 1 / (1 - probability).
\* With explore false the output is the input and state is left as it was;
\* with explore true state[i] is the value drawn, and output[i] is 0 when
\* state[i] is below probability and input[i] * scale otherwise.
C24_DropoutOnlyWhenExploring ==
    last.op = "dropout_forward" =>
        LET l == last.out[1]
            L == lay[l]
            before == last.self.layers[1]
            a == last.arg
        IN  /\ nstat = "ok"
            /\ L = before.layer
            /\ L.scale = RDiv(<<1, 1>>, RSub(<<1, 1>>, L.probability))
            /\ arr[L.delta] = before.arrays[2]
            /\ IF ~a.explore
               THEN /\ arr[L.output] = a.input
                    /\ arr[L.state] = before.arrays[3]
               ELSE \A i \in 1..L.n_inputs :
                       /\ arr[L.state][i] = a.rnd[i]
                       /\ arr[L.output][i] =
                              IF RLess(a.rnd[i], L.probability) THEN <<0, 1>>
                              ELSE RMul(a.input[i], L.scale)

\* a pass without exploring after a pass that dropped an input and kept one
C24_Witness ==
    /\ last.op = "dropout_forward"
    /\ nphase = "done"
    /\ ~last.arg.explore
    /\ last.self.layers[1].arrays[3] = <<<<0, 1>>, <<3, 4>>>>
    /\ last.self.layers[1].arrays[1][1] = <<0, 1>>
    /\ last.self.layers[1].arrays[1][2] # <<0, 1>>
    /\ arr[lay[last.out[1]].output] = last.arg.input

-----------------------------------------------------------------------------
(* Properties of the order of measuring and learning in fit *)

\* the positions of the call c in the list of calls of a trial
CallsAt(cs, c) == {j \in 1..Len(cs) : cs[j] = c}

\* the prediction array is built once, and before any update or EA of the trial
BuiltOnceBeforeLearning(cs) ==
    /\ Cardinality(CallsAt(cs, "pa_build")) = 1
    /\ \A b \in CallsAt(cs, "pa_build") :
          \A j \in CallsAt(cs, "clset_update") \cup CallsAt(cs, "ea") : b < j

\* C25: the training loss fit adds for a sample is the loss of the prediction
\* array as the pa_build of that sample's own training trial left it, which ran
\* once, before the update and the EA of that trial, and it is added before the
\* test trial starts; each test loss is the loss of the prediction array built
\* in its own test trial.
C25_LossMeasuredBeforeLearning ==
    [][/\ pc = "fit_235" =>
             LET t == trials[Len(trials)]
             IN  /\ t.explore
                 /\ t.row = frame.row
                 /\ t.y = frame.y
                 /\ BuiltOnceBeforeLearning(t.calls)
                 /\ frame'.err = frame.err + Loss(xcsf, t.paBuilt, t.y)
                 /\ frame'.werr = frame.werr + Loss(xcsf, t.paBuilt, t.y)
                 /\ Len(trials') = Len(trials)
       /\ pc = "fit_245" =>
             LET t == trials[Len(trials)]
             IN  /\ ~t.explore
                 /\ t.row = frame.row
                 /\ t.y = frame.y
                 /\ BuiltOnceBeforeLearning(t.calls)
                 /\ frame'.wterr = frame.wterr + Loss(xcsf, t.paBuilt, t.y)]_vars

\* a training loss above zero, measured before the update of its trial moved
\* the predictions to the target, and the test loss of the same sample have
\* both been added
C25_Witness ==
    /\ pc = "fit_247"
    /\ ~frame.test.null
    /\ Len(trials) >= 2
    /\ LET t == trials[Len(trials) - 1]
       IN  /\ t.explore
           /\ CallsAt(t.calls, "clset_update") # {}
           /\ Loss(xcsf, t.paBuilt, t.y) > 0
    /\ ~trials[Len(trials)].explore
    /\ frame.err > 0
    /\ frame.wterr > 0

-----------------------------------------------------------------------------
(* Properties of the selection of samples in fit *)

\* the trial number (the value of cnt) of entry i of the trials of a fit
TrialCnt(i) == IF frame.test.null THEN i - 1 ELSE (i - 1) \div 2

\* the data set entry i of the trials of a fit takes its sample from
TrialData(i) == IF trials[i].explore THEN frame.train ELSE frame.test

\* the entries of the trials of a fit that sample the training (TRUE) or the
\* test (FALSE) data
TrialsOf(e) == {i \in 1..Len(trials) : trials[i].explore = e}

\* C26: without shuffle trial number cnt of fit uses row cnt mod n_samples of
\* the training data and row cnt mod n_samples of the test data, whatever the
\* earlier trials did; the row is in [0, n_samples), the next trial uses the
\* next row, wrapping to 0, and n_samples consecutive trials use every row of
\* their data set exactly once.
C26_RoundRobinWithoutShuffle ==
    (frame.fn = "fit" /\ ~frame.shuffle) =>
        /\ \A i \in 1..Len(trials) :
              LET t == trials[i]
                  d == TrialData(i)
              IN  /\ t.row = TrialCnt(i) % d.n_samples
                  /\ t.row \in 0..(d.n_samples - 1)
                  /\ t.x = Vec(Ptr(d.x, t.row * d.x_dim), X_DIM)
                  /\ t.y = Ptr(d.y, t.row * d.y_dim)
        /\ \A e \in BOOLEAN : \A i, j \in TrialsOf(e) :
              LET n == TrialData(i).n_samples
              IN  /\ TrialCnt(j) = TrialCnt(i) + 1 =>
                        trials[j].row = IF trials[i].row = n - 1 THEN 0
                                        ELSE trials[i].row + 1
                  /\ (i # j /\ trials[i].row = trials[j].row) =>
                        (TrialCnt(j) - TrialCnt(i) >= n \/ TrialCnt(i) - TrialCnt(j) >= n)
                  /\ TrialCnt(j) = TrialCnt(i) + n - 1 =>
                        {trials[k].row : k \in {m \in TrialsOf(e) :
                              TrialCnt(m) \in TrialCnt(i)..TrialCnt(j)}} = 0..(n - 1)
        /\ InTrial =>
              frame.row = frame.cnt % (IF xcsf.explore THEN frame.train.n_samples
                                       ELSE frame.test.n_samples)

\* fit without shuffle has returned after the training rows wrapped from the
\* last row to row 0, while the test data, of another size, gave its only row
C26_Witness ==
    /\ FitReturned
    /\ ~frame.shuffle
    /\ ~frame.test.null
    /\ frame.train.n_samples = 2
    /\ frame.test.n_samples = 1
    /\ Len(trials) = 6
    /\ <<trials[1].row, trials[3].row, trials[5].row>> = <<0, 1, 0>>
    /\ <<trials[2].row, trials[4].row, trials[6].row>> = <<0, 0, 0>>

====
